---- MODULE Spec2Model ----
(***************************************************************************)
(* A model of the PARSEC service's key store and request pipeline.         *)
(*                                                                         *)
(* Strings and file contents are sequences of bytes (0..255); a path is a  *)
(* sequence of file-name components below the mappings directory; a file   *)
(* name is a sequence of ASCII codes.                                      *)
(***************************************************************************)
EXTENDS Integers, Sequences, FiniteSets, TLC

VARIABLES
    manager,     \* what OnDiskKeyIDManager::new last returned: "none", "Ok" or "Err"
    key_store,   \* OnDiskKeyIDManager.key_store: HashMap<KeyTriple, Vec<u8>>
    disk,        \* contents of mappings_dir_path: path -> node
    readers,     \* threads holding a read guard of the RwLock around the manager
    writers,     \* threads holding the write guard
    call,        \* the mutating call the writer is inside, and its outcome
    obs,         \* what a thread last read under its read guard
    expected,    \* history: triple -> id of the last successful insert not yet removed
    prev,        \* history: the map of the previous instance at its teardown
    crashed,     \* history: the insert a crash interrupted
    conn         \* one connection handled by FrontEndHandler::handle_request

vars == <<manager, key_store, disk, readers, writers, call, obs, expected, prev, crashed, conn>>

----------------------------------------------------------------------------
(* Option<T> *)

None == [some |-> FALSE, v |-> <<>>]

Some(x) == [some |-> TRUE, v |-> x]

(* Result of a file-system call: the disk afterwards and whether it succeeded *)
FsOk(d) == [ok |-> TRUE, disk |-> d]

FsErr(d) == [ok |-> FALSE, disk |-> d]

----------------------------------------------------------------------------
(* base64::encode_config(bytes, base64::URL_SAFE): the URL-safe alphabet,   *)
(* with '=' padding.                                                        *)

B64Char(i) ==
    IF i < 26 THEN 65 + i
    ELSE IF i < 52 THEN 97 + (i - 26)
    ELSE IF i < 62 THEN 48 + (i - 52)
    ELSE IF i = 62 THEN 45
    ELSE 95

RECURSIVE Base64Encode(_)
Base64Encode(b) ==
    IF Len(b) = 0 THEN <<>>
    ELSE IF Len(b) = 1 THEN
        <<B64Char(b[1] \div 4), B64Char((b[1] % 4) * 16), 61, 61>>
    ELSE IF Len(b) = 2 THEN
        <<B64Char(b[1] \div 4), B64Char((b[1] % 4) * 16 + (b[2] \div 16)),
          B64Char((b[2] % 16) * 4), 61>>
    ELSE
        <<B64Char(b[1] \div 4), B64Char((b[1] % 4) * 16 + (b[2] \div 16)),
          B64Char((b[2] % 16) * 4 + (b[3] \div 64)), B64Char(b[3] % 64)>>
        \o Base64Encode(SubSeq(b, 4, Len(b)))

(* The value of a base64 symbol, -1 for a byte outside the alphabet *)
B64Val(c) ==
    IF c >= 65 /\ c <= 90 THEN c - 65
    ELSE IF c >= 97 /\ c <= 122 THEN c - 97 + 26
    ELSE IF c >= 48 /\ c <= 57 THEN c - 48 + 52
    ELSE IF c = 45 THEN 62
    ELSE IF c = 95 THEN 63
    ELSE -1

(* base64::decode_config(bytes, base64::URL_SAFE): Err is None *)
RECURSIVE Base64Decode(_)
Base64Decode(s) ==
    IF Len(s) = 0 THEN Some(<<>>)
    ELSE IF Len(s) < 4 THEN None
    ELSE
        LET v1 == B64Val(s[1])
            v2 == B64Val(s[2])
            v3 == B64Val(s[3])
            v4 == B64Val(s[4])
            b1 == v1 * 4 + (v2 \div 16)
            b2 == (v2 % 16) * 16 + (v3 \div 4)
            b3 == (v3 % 4) * 64 + v4
        IN  IF v1 < 0 \/ v2 < 0 THEN None
            ELSE IF Len(s) = 4 /\ s[3] = 61 /\ s[4] = 61 THEN
                IF v2 % 16 = 0 THEN Some(<<b1>>) ELSE None
            ELSE IF v3 < 0 THEN None
            ELSE IF Len(s) = 4 /\ s[4] = 61 THEN
                IF v3 % 4 = 0 THEN Some(<<b1, b2>>) ELSE None
            ELSE IF v4 < 0 THEN None
            ELSE
                LET rest == Base64Decode(SubSeq(s, 5, Len(s)))
                IN  IF rest.some THEN Some(<<b1, b2, b3>> \o rest.v) ELSE None

(* String::from_utf8 succeeds exactly on well-formed UTF-8 *)
IsCont(c) == c >= 128 /\ c <= 191

RECURSIVE Utf8Valid(_)
Utf8Valid(b) ==
    IF Len(b) = 0 THEN TRUE
    ELSE IF b[1] < 128 THEN Utf8Valid(Tail(b))
    ELSE IF b[1] >= 194 /\ b[1] <= 223 THEN
        /\ Len(b) >= 2
        /\ IsCont(b[2])
        /\ Utf8Valid(SubSeq(b, 3, Len(b)))
    ELSE IF b[1] >= 224 /\ b[1] <= 239 THEN
        /\ Len(b) >= 3
        /\ IsCont(b[2]) /\ IsCont(b[3])
        /\ (b[1] = 224 => b[2] >= 160)
        /\ (b[1] = 237 => b[2] <= 159)
        /\ Utf8Valid(SubSeq(b, 4, Len(b)))
    ELSE IF b[1] >= 240 /\ b[1] <= 244 THEN
        /\ Len(b) >= 4
        /\ IsCont(b[2]) /\ IsCont(b[3]) /\ IsCont(b[4])
        /\ (b[1] = 240 => b[2] >= 144)
        /\ (b[1] = 244 => b[2] <= 143)
        /\ Utf8Valid(SubSeq(b, 5, Len(b)))
    ELSE FALSE

(* u8::to_string *)
RECURSIVE U8ToString(_)
U8ToString(n) ==
    IF n < 10 THEN <<48 + n>> ELSE U8ToString(n \div 10) \o <<48 + (n % 10)>>

(* str::parse::<u8>: an optional '+', then decimal digits, no overflow *)
RECURSIVE ParseDigits(_, _)
ParseDigits(s, acc) ==
    IF Len(s) = 0 THEN Some(acc)
    ELSE IF s[1] < 48 \/ s[1] > 57 THEN None
    ELSE IF acc * 10 + (s[1] - 48) > 255 THEN None
    ELSE ParseDigits(Tail(s), acc * 10 + (s[1] - 48))

ParseU8(s) ==
    LET digits == IF Len(s) > 0 /\ s[1] = 43 THEN Tail(s) ELSE s
    IN  IF Len(digits) = 0 THEN None ELSE ParseDigits(digits, 0)

----------------------------------------------------------------------------
(* The file system below mappings_dir_path.  A node is a directory or a    *)
(* file with its bytes; the root is the path <<>>.                          *)

DirNode == [kind |-> "dir", data |-> <<>>]

FileNode(bytes) == [kind |-> "file", data |-> bytes]

PathExists(d, p) == p \in DOMAIN d

IsDir(d, p) == p \in DOMAIN d /\ d[p].kind = "dir"

IsFile(d, p) == p \in DOMAIN d /\ d[p].kind = "file"

PutNode(d, p, node) == [q \in DOMAIN d \cup {p} |-> IF q = p THEN node ELSE d[q]]

Parent(p) == SubSeq(p, 1, Len(p) - 1)

(* Path::join: joining the empty file name leaves the same path (with a    *)
(* trailing separator)                                                      *)
Join(p, name) == IF Len(name) = 0 THEN p ELSE Append(p, name)

(* fs::create_dir_all: creates every missing ancestor, fails on a file *)
CreateDirAll(d, p) ==
    LET blocked == {k \in 0..Len(p) : IsFile(d, SubSeq(p, 1, k))}
        upto == IF blocked = {} THEN Len(p)
                ELSE (CHOOSE k \in blocked : \A j \in blocked : k <= j) - 1
        made == {SubSeq(p, 1, k) : k \in 0..upto}
        d2 == [q \in DOMAIN d \cup made |-> IF q \in DOMAIN d THEN d[q] ELSE DirNode]
    IN  IF blocked = {} THEN FsOk(d2) ELSE FsErr(d2)

(* fs::remove_file: fails on a directory or a missing file *)
RemoveFile(d, p) ==
    IF IsFile(d, p) THEN FsOk([q \in DOMAIN d \ {p} |-> d[q]]) ELSE FsErr(d)

(* File::create: a new empty file, or the existing file truncated *)
CreateFile(d, p) ==
    IF Len(p) > 0 /\ IsDir(d, Parent(p)) /\ ~IsDir(d, p)
    THEN FsOk(PutNode(d, p, FileNode(<<>>)))
    ELSE FsErr(d)

(* Write::write_all that gets n bytes out before an I/O error stops it *)
WriteAll(d, p, bytes, n) ==
    IF n = Len(bytes)
    THEN FsOk(PutNode(d, p, FileNode(bytes)))
    ELSE FsErr(PutNode(d, p, FileNode(SubSeq(bytes, 1, n))))

(* The bytes of the file at p, None when p is no file *)
FileAt(d, p) == IF IsFile(d, p) THEN Some(d[p].data) ELSE None

----------------------------------------------------------------------------
(* KeyTriple and its file names *)

KeyTriple(app, prov, key) == [app_name |-> app, provider_id |-> prov, key_name |-> key]

(* ProviderID::try_from(u8) succeeds on the enumerated provider ids *)
ProviderIDs == {0, 1, 2, 3, 4}

(* File names that leave the application name out *)
FilenamesWithoutApplication(t) ==
    <<Base64Encode(t.key_name), U8ToString(t.provider_id), Base64Encode(t.key_name)>>

key_triple_to_base64_filenames(t) ==
    <<Base64Encode(t.app_name), U8ToString(t.provider_id), Base64Encode(t.key_name)>>

base64_data_to_string(s) ==
    LET bytes == Base64Decode(s)
    IN  IF bytes.some /\ Utf8Valid(bytes.v) THEN bytes ELSE None

base64_data_triple_to_key_triple(app, prov, key) ==
    LET a == base64_data_to_string(app)
        k == base64_data_to_string(key)
    IN  IF a.some /\ k.some THEN Some(KeyTriple(a.v, prov, k.v)) ELSE None

(* OsStr::to_str: None for a file name that is not UTF-8 *)
os_str_to_u8_ref(name) == IF Utf8Valid(name) THEN Some(name) ELSE None

os_str_to_provider_id(name) ==
    LET n == IF Utf8Valid(name) THEN ParseU8(name) ELSE None
    IN  IF n.some /\ n.v \in ProviderIDs THEN n ELSE None

ProviderDirPath(t) ==
    LET names == key_triple_to_base64_filenames(t)
    IN  Join(Join(<<>>, names[1]), names[2])

KeyNameFilePath(t) == Join(ProviderDirPath(t), key_triple_to_base64_filenames(t)[3])

----------------------------------------------------------------------------
(* I/O faults.  A fault names the file-system call of the running          *)
(* operation that fails with an I/O error (0: none) and, for write_all,    *)
(* how many bytes reached the file before it.                              *)

NoFault == [step |-> 0, n |-> 0]

Faults(key_id) ==
    {NoFault}
    \cup {[step |-> k, n |-> 0] : k \in 1..3}
    \cup {[step |-> 4, n |-> m] : m \in 0..(Len(key_id) - 1)}

(* The file-system calls of save_mapping, each on the result of the one    *)
(* before it: an Err is passed on, as `?` returns it                       *)
SaveCreateDirAll(d, provider_dir_path, fault) ==
    IF fault.step = 1 THEN FsErr(d) ELSE CreateDirAll(d, provider_dir_path)

SaveRemoveFile(r, key_name_file_path, fault) ==
    IF ~r.ok THEN r
    ELSE IF ~PathExists(r.disk, key_name_file_path) THEN r
    ELSE IF fault.step = 2 THEN FsErr(r.disk)
    ELSE RemoveFile(r.disk, key_name_file_path)

SaveCreateFile(r, key_name_file_path, fault) ==
    IF ~r.ok THEN r
    ELSE IF fault.step = 3 THEN FsErr(r.disk)
    ELSE CreateFile(r.disk, key_name_file_path)

SaveWriteAll(r, key_name_file_path, key_id, fault) ==
    IF ~r.ok THEN r
    ELSE IF fault.step = 4 THEN WriteAll(r.disk, key_name_file_path, key_id, fault.n)
    ELSE WriteAll(r.disk, key_name_file_path, key_id, Len(key_id))

(* save_mapping: create_dir_all (1), remove_file if the file exists (2),   *)
(* File::create (3), write_all (4)                                          *)
save_mapping(d, t, key_id, fault) ==
    SaveWriteAll(
        SaveCreateFile(
            SaveRemoveFile(
                SaveCreateDirAll(d, ProviderDirPath(t), fault),
                KeyNameFilePath(t), fault),
            KeyNameFilePath(t), fault),
        KeyNameFilePath(t), key_id, fault)

(* delete_mapping: remove_file if the file exists (2) *)
delete_mapping(d, t, fault) ==
    LET key_name_file_path == KeyNameFilePath(t)
    IN  IF ~PathExists(d, key_name_file_path) THEN FsOk(d)
        ELSE IF fault.step = 2 THEN FsErr(d)
        ELSE RemoveFile(d, key_name_file_path)

----------------------------------------------------------------------------
(* OnDiskKeyIDManager *)

EmptyMap == [t \in {} |-> <<>>]

MapInsert(ks, t, key_id) == [x \in DOMAIN ks \cup {t} |-> IF x = t THEN key_id ELSE ks[x]]

MapRemove(ks, t) == [x \in DOMAIN ks \ {t} |-> ks[x]]

get(ks, t) == IF t \in DOMAIN ks THEN Some(ks[t]) ELSE None

get_all(ks, provider_id) == {t \in DOMAIN ks : t.provider_id = provider_id}

(* An exists that answers whether the store holds any mapping at all *)
ExistsInNonEmpty(ks, t) == DOMAIN ks # {}

exists(ks, t) == t \in DOMAIN ks

(* An insert that keeps the key id a triple already has *)
InsertKeepsFirst(ks, d, t, key_id, fault) ==
    LET saved == save_mapping(d, t, key_id, fault)
    IN  IF ~saved.ok
        THEN [res |-> "Err", ret |-> None, store |-> ks, disk |-> saved.disk]
        ELSE [res |-> "Ok", ret |-> get(ks, t),
              store |-> IF t \in DOMAIN ks THEN ks ELSE MapInsert(ks, t, key_id),
              disk |-> saved.disk]

(* An insert that updates the map before the disk step *)
InsertMemoryFirst(ks, d, t, key_id, fault) ==
    LET saved == save_mapping(d, t, key_id, fault)
    IN  [res |-> IF saved.ok THEN "Ok" ELSE "Err",
         ret |-> IF saved.ok THEN get(ks, t) ELSE None,
         store |-> MapInsert(ks, t, key_id), disk |-> saved.disk]

(* insert: the disk first, the map only when the disk step succeeded *)
insert(ks, d, t, key_id, fault) ==
    LET saved == save_mapping(d, t, key_id, fault)
    IN  IF ~saved.ok
        THEN [res |-> "Err", ret |-> None, store |-> ks, disk |-> saved.disk]
        ELSE [res |-> "Ok", ret |-> get(ks, t), store |-> MapInsert(ks, t, key_id),
              disk |-> saved.disk]

remove(ks, d, t, fault) ==
    LET deleted == delete_mapping(d, t, fault)
    IN  IF ~deleted.ok
        THEN [res |-> "Err", ret |-> None, store |-> ks, disk |-> deleted.disk]
        ELSE [res |-> "Ok", ret |-> get(ks, t), store |-> MapRemove(ks, t),
              disk |-> deleted.disk]

(* The mapping files OnDiskKeyIDManager::new finds: files two directory    *)
(* levels below the mappings directory                                     *)
MappingFiles(d) ==
    {p \in DOMAIN d : /\ Len(p) = 3
                      /\ IsFile(d, p)
                      /\ IsDir(d, SubSeq(p, 1, 1))
                      /\ IsDir(d, SubSeq(p, 1, 2))}

(* The conversions of new that return early with `?` *)
PathConversionFails(p) ==
    \/ ~os_str_to_u8_ref(p[1]).some
    \/ ~os_str_to_provider_id(p[2]).some
    \/ ~os_str_to_u8_ref(p[3]).some

DecodeMappingPath(p) ==
    base64_data_triple_to_key_triple(p[1], os_str_to_provider_id(p[2]).v, p[3])

(* new: Err when a conversion of a mapping file's path fails; otherwise    *)
(* the maps it can build.  Files whose names do not decode are skipped;    *)
(* of several files that decode to one triple the last one read wins, and  *)
(* read_dir promises no order.                                             *)
NewFails(d) == \E p \in MappingFiles(d) : PathConversionFails(p)

LoadedFiles(d) ==
    {p \in MappingFiles(d) : ~PathConversionFails(p) /\ DecodeMappingPath(p).some}

NewStores(d) ==
    LET loaded == LoadedFiles(d)
        triples == {DecodeMappingPath(p).v : p \in loaded}
    IN  {m \in [triples -> {d[p].data : p \in loaded}] :
            \A t \in triples : \E p \in loaded : DecodeMappingPath(p).v = t /\ d[p].data = m[t]}

----------------------------------------------------------------------------
(* The provider behind the back-end handler.  A provider builds the triple *)
(* from the application name it is called with, its own provider id and    *)
(* the key name of the operation.                                          *)

(* A dispatch that passes DestroyKey to create_key *)
ProvideMethodDestroyCreates(operation) ==
    CASE operation = "Ping" -> "ping"
      [] operation = "CreateKey" -> "create_key"
      [] operation = "ImportKey" -> "import_key"
      [] operation = "ExportPublicKey" -> "export_public_key"
      [] operation = "DestroyKey" -> "create_key"
      [] operation = "AsymSign" -> "asym_sign"
      [] operation = "AsymVerify" -> "asym_verify"

(* An execute_request that passes an import to create_key *)
ProvideMethodImportCreates(operation) ==
    CASE operation = "Ping" -> "ping"
      [] operation = "CreateKey" -> "create_key"
      [] operation = "ImportKey" -> "create_key"
      [] operation = "ExportPublicKey" -> "export_public_key"
      [] operation = "DestroyKey" -> "destroy_key"
      [] operation = "AsymSign" -> "asym_sign"
      [] operation = "AsymVerify" -> "asym_verify"

(* BackEndHandler::execute_request: the provider method each operation     *)
(* variant is passed to                                                     *)
ProvideMethod(operation) ==
    CASE operation = "Ping" -> "ping"
      [] operation = "CreateKey" -> "create_key"
      [] operation = "ImportKey" -> "import_key"
      [] operation = "ExportPublicKey" -> "export_public_key"
      [] operation = "DestroyKey" -> "destroy_key"
      [] operation = "AsymSign" -> "asym_sign"
      [] operation = "AsymVerify" -> "asym_verify"

(* export_public_key of the provider: the key must be in the store *)
export_public_key(ks, t) == IF exists(ks, t) THEN "Success" ELSE "KeyDoesNotExist"

(* create_key and import_key of the provider: a name already in the store  *)
(* is refused, a new one is inserted under the key id the provider chose   *)
create_key(ks, d, t, key_id, fault) ==
    IF exists(ks, t)
    THEN [status |-> "KeyAlreadyExists", res |-> "None", ret |-> None, store |-> ks, disk |-> d]
    ELSE LET r == insert(ks, d, t, key_id, fault)
         IN  [status |-> IF r.res = "Ok" THEN "Success" ELSE "KeyInfoManagerError",
              res |-> r.res, ret |-> r.ret, store |-> r.store, disk |-> r.disk]

(* destroy_key of the provider: the key must be in the store, and leaves it *)
destroy_key(ks, d, t, fault) ==
    IF ~exists(ks, t)
    THEN [status |-> "KeyDoesNotExist", res |-> "None", ret |-> None, store |-> ks, disk |-> d]
    ELSE LET r == remove(ks, d, t, fault)
         IN  [status |-> IF r.res = "Ok" THEN "Success" ELSE "KeyInfoManagerError",
              res |-> r.res, ret |-> r.ret, store |-> r.store, disk |-> r.disk]

----------------------------------------------------------------------------
(* Requests and responses *)

(* The operations of NativeOperation; an opcode is the position of its     *)
(* operation                                                                *)
Operations ==
    <<"Ping", "CreateKey", "ImportKey", "ExportPublicKey", "DestroyKey", "AsymSign", "AsymVerify">>

OpcodeOf(operation) == (CHOOSE i \in 1..Len(Operations) : Operations[i] = operation) - 1

OperationOf(opcode) == Operations[opcode + 1]

RequestHeader(version_maj, version_min, provider, session, content_type, accept_type, auth_type, opcode) ==
    [version_maj |-> version_maj, version_min |-> version_min, provider |-> provider,
     session |-> session, content_type |-> content_type, accept_type |-> accept_type,
     auth_type |-> auth_type, opcode |-> opcode]

NoRequest == RequestHeader(0, 0, 0, 0, 0, 0, "none", 0)

(* A header that starts from the version of the wire protocol *)
ResponseHeaderOfWireVersion ==
    [version_maj |-> 1, version_min |-> 0, provider |-> 0, session |-> 0,
     content_type |-> 0, body_len |-> 0, opcode |-> 0, status |-> "Success"]

(* ResponseHeader::new: default field values *)
ResponseHeader_new ==
    [version_maj |-> 0, version_min |-> 0, provider |-> 0, session |-> 0, content_type |-> 0,
     body_len |-> 0, opcode |-> 0, status |-> "Success"]

(* Response::new: default header and empty body *)
Response_new == [header |-> ResponseHeader_new, body |-> <<>>]

(* Response::from_status: the default response with the status set *)
from_status(status) == [Response_new EXCEPT !.header.status = status]

(* Response::from_request_header: the header of the request echoed, the    *)
(* content type the request accepts, the status set and an empty body      *)
from_request_header(header, status) ==
    [header |-> [version_maj |-> header.version_maj, version_min |-> header.version_min,
                 provider |-> header.provider, session |-> header.session,
                 content_type |-> header.accept_type, body_len |-> 0,
                 opcode |-> header.opcode, status |-> status],
     body |-> <<>>]

----------------------------------------------------------------------------
(* BackEndHandler *)

BackEndHandler(provider_id, content_type, accept_type, version_maj, version_min) ==
    [provider_id |-> provider_id, content_type |-> content_type, accept_type |-> accept_type,
     version_maj |-> version_maj, version_min |-> version_min]

(* A handler that compares the version before the provider and the types *)
IsCapableVersionFirst(handler, header) ==
    IF header.version_maj > handler.version_maj
            \/ (header.version_maj = handler.version_maj
                  /\ header.version_min > handler.version_min)
    THEN "VersionTooBig"
    ELSE IF header.provider # handler.provider_id THEN "WrongProviderID"
    ELSE IF header.content_type # handler.content_type THEN "ContentTypeNotSupported"
    ELSE IF header.accept_type # handler.accept_type THEN "AcceptTypeNotSupported"
    ELSE "Ok"

(* A handler that compares the major version only *)
IsCapableMajorOnly(handler, header) ==
    IF header.provider # handler.provider_id THEN "WrongProviderID"
    ELSE IF header.content_type # handler.content_type THEN "ContentTypeNotSupported"
    ELSE IF header.accept_type # handler.accept_type THEN "AcceptTypeNotSupported"
    ELSE IF header.version_maj > handler.version_maj THEN "VersionTooBig"
    ELSE "Ok"

is_capable(handler, header) ==
    IF header.provider # handler.provider_id THEN "WrongProviderID"
    ELSE IF header.content_type # handler.content_type THEN "ContentTypeNotSupported"
    ELSE IF header.accept_type # handler.accept_type THEN "AcceptTypeNotSupported"
    ELSE IF \/ header.version_maj > handler.version_maj
            \/ (header.version_maj = handler.version_maj
                  /\ header.version_min > handler.version_min)
    THEN "VersionTooBig"
    ELSE "Ok"

(* What the converter and the provider answer to one request: "Ok" or the  *)
(* status of their failure                                                  *)
Outcomes ==
    [decode : {"Ok", "DeserializingBodyFailed"},
     provider : {"Ok", "KeyDoesNotExist"},
     encode : {"Ok", "SerializingBodyFailed"}]

NoOutcome == [decode |-> "none", provider |-> "none", encode |-> "none"]

(* Convert::result_to_body: the body of the result of an operation *)
EncodedResult(operation) == <<OpcodeOf(operation) + 1>>

(* result_to_response: Success and the encoded result, or the status of    *)
(* the failed encoding                                                      *)
result_to_response(operation, request_hdr, outcome) ==
    IF outcome.encode = "Ok"
    THEN [from_request_header(request_hdr, "Success") EXCEPT !.body = EncodedResult(operation)]
    ELSE [from_request_header(request_hdr, "Success") EXCEPT !.header.status = outcome.encode]

(* A handler that goes on after a failure and answers the status of the    *)
(* first one                                                                *)
ExecuteRequestWithoutReturn(header, app_name, outcome) ==
    [response |->
        IF outcome.decode # "Ok" THEN from_request_header(header, outcome.decode)
        ELSE IF outcome.provider # "Ok" THEN from_request_header(header, outcome.provider)
        ELSE result_to_response(OperationOf(header.opcode), header, outcome),
     calls |-> <<"body_to_operation", ProvideMethod(OperationOf(header.opcode)),
                 "result_to_body">>,
     given |-> Some(app_name)]

(* execute_request: the response, the calls made on the way (the body      *)
(* converter, the provider method, the result converter) and the           *)
(* application name the provider method was given                          *)
execute_request(header, app_name, outcome) ==
    LET operation == OperationOf(header.opcode)
        given == IF operation = "Ping" THEN None ELSE Some(app_name)
    IN  IF outcome.decode # "Ok"
        THEN [response |-> from_request_header(header, outcome.decode),
              calls |-> <<"body_to_operation">>, given |-> None]
        ELSE IF outcome.provider # "Ok"
        THEN [response |-> from_request_header(header, outcome.provider),
              calls |-> <<"body_to_operation", ProvideMethod(operation)>>, given |-> given]
        ELSE [response |-> result_to_response(operation, header, outcome),
              calls |-> <<"body_to_operation", ProvideMethod(operation), "result_to_body">>,
              given |-> given]

----------------------------------------------------------------------------
(* Dispatcher *)

WIRE_PROTOCOL_VERSION_MINOR == 0

WIRE_PROTOCOL_VERSION_MAJOR == 1

Protobuf == 0

DEFAULT_BODY_LEN_LIMIT == 1048576

(* A service that takes the default for every configuration *)
BodyLenLimitOfDefault(configured) == DEFAULT_BODY_LEN_LIMIT

(* build_service: the limit the front end is built with, the configured    *)
(* one or the default                                                       *)
BodyLenLimit(configured) ==
    IF configured.some THEN configured.v ELSE DEFAULT_BODY_LEN_LIMIT

(* Request::read_from_stream between header and body: the size guard *)
SizeGuard(body_len, auth_len, body_len_limit) ==
    IF body_len + auth_len > body_len_limit THEN "BodyLenTooLarge" ELSE "Ok"

(* The providers the service is built with: Core and Mbed Crypto *)
RegisteredProviders == {0, 1}

(* A builder that gives every handler the provider id of the Core provider *)
BackendHandlersOfCore(providers) ==
    [id \in providers |->
        BackEndHandler(0, Protobuf, Protobuf,
                       WIRE_PROTOCOL_VERSION_MAJOR, WIRE_PROTOCOL_VERSION_MINOR)]

(* A builder that gives every handler the provider id of the last provider *)
BackendHandlersOfLast(providers) ==
    [id \in providers |->
        BackEndHandler(CHOOSE m \in providers : \A k \in providers : k <= m,
                       Protobuf, Protobuf,
                       WIRE_PROTOCOL_VERSION_MAJOR, WIRE_PROTOCOL_VERSION_MINOR)]

(* build_backend_handlers: one handler per provider, under its provider id *)
build_backend_handlers(providers) ==
    [id \in providers |->
        BackEndHandler(id, Protobuf, Protobuf,
                       WIRE_PROTOCOL_VERSION_MAJOR, WIRE_PROTOCOL_VERSION_MINOR)]

(* The operations served to a request without identity: Ping *)
RequiresIdentity(opcode) == OperationOf(opcode) # "Ping"

(* dispatch_request: the handler registered under header.provider answers, *)
(* if it is capable and the operation has the identity it needs            *)
dispatch_request(backends, header, identity, outcome) ==
    IF header.provider \notin DOMAIN backends
    THEN [response |-> from_request_header(header, "WrongProviderID"),
          handler |-> None, calls |-> <<>>, given |-> None]
    ELSE IF is_capable(backends[header.provider], header) # "Ok"
    THEN [response |->
              from_request_header(header, is_capable(backends[header.provider], header)),
          handler |-> None, calls |-> <<"is_capable">>, given |-> None]
    ELSE IF ~identity.some /\ RequiresIdentity(header.opcode)
    THEN [response |-> from_request_header(header, "NotAuthenticated"),
          handler |-> Some(backends[header.provider].provider_id),
          calls |-> <<"is_capable">>, given |-> None]
    ELSE [response |-> execute_request(header, identity.v, outcome).response,
          handler |-> Some(backends[header.provider].provider_id),
          calls |-> <<"is_capable">> \o execute_request(header, identity.v, outcome).calls,
          given |-> execute_request(header, identity.v, outcome).given]

----------------------------------------------------------------------------
(* The key store shared by the provider threads *)

NumThreads == 2

Threads == 1..NumThreads

(* The triples and key ids the calls of one thread are made with:          *)
(* applications "a" and "", key names "k" and "", at the Mbed provider     *)
InputTriples ==
    {KeyTriple(<<97>>, 1, <<107>>), KeyTriple(<<>>, 1, <<107>>), KeyTriple(<<97>>, 1, <<>>)}

KeyIds == {<<17, 34>>, <<51>>}

(* The triples and key ids the calls of concurrent threads are made with:  *)
(* applications "a" and "b", key name "k"                                  *)
SharedTriples == {KeyTriple(<<97>>, 1, <<107>>), KeyTriple(<<98>>, 1, <<107>>)}

SharedKeyIds == {<<51>>}

(* The operations sent through the back-end handler that reach the store *)
KeyOperations == {"CreateKey", "ImportKey", "ExportPublicKey", "DestroyKey"}

NoTriple == KeyTriple(<<>>, 0, <<>>)

NoCall == [op |-> "none", t |-> NoTriple, key_id |-> <<>>, status |-> "", ret |-> None,
           before |-> <<>>, hist |-> None]

NoObs == [by |-> 0, op |-> "none", t |-> NoTriple, get |-> None, exists |-> FALSE,
          status |-> ""]

NoCrash == [valid |-> FALSE, t |-> NoTriple, key_id |-> <<>>, old |-> None]

NoPrev == [clean |-> TRUE, have |-> FALSE, store |-> <<>>]

NoExpected == [map |-> <<>>, removed |-> {}]

NoConn == [pc |-> "none", no_auth_branch |-> FALSE, authenticators |-> {}, handled |-> 0,
           configured |-> None, body_len_limit |-> DEFAULT_BODY_LEN_LIMIT, body_len |-> 0, auth_len |-> 0,
           allocated |-> 0,
           read |-> "none", header_decoded |-> FALSE, request |-> NoRequest, auth |-> <<>>, path |-> "none",
           consulted |-> "none", identity |-> None, handler |-> None, calls |-> <<>>,
           given |-> None, outcome |-> NoOutcome, response |-> Response_new,
           reads |-> 0, dispatches |-> 0, writes |-> 0, write_ok |-> FALSE]

Up == manager = "Ok"

(* History: the contract's map after a call with the given outcome *)
HistPut(m, t, key_id) == [x \in DOMAIN m \cup {t} |-> IF x = t THEN key_id ELSE m[x]]

HistDel(m, t) == [x \in DOMAIN m \ {t} |-> m[x]]

HistGet(m, t) == IF t \in DOMAIN m THEN Some(m[t]) ELSE None

ExpectedAfter(op, t, key_id, status) ==
    IF status \notin {"Ok", "Success"} THEN expected
    ELSE IF op \in {"insert", "CreateKey", "ImportKey"}
    THEN [map |-> HistPut(expected.map, t, key_id), removed |-> expected.removed \ {t}]
    ELSE IF op \in {"remove", "DestroyKey"}
    THEN [map |-> HistDel(expected.map, t), removed |-> expected.removed \cup {t}]
    ELSE expected

StoreInit ==
    /\ manager = "none"
    /\ key_store = EmptyMap
    /\ disk = [p \in {} |-> DirNode]
    /\ readers = {}
    /\ writers = {}
    /\ call = NoCall
    /\ obs = NoObs
    /\ expected = NoExpected
    /\ prev = NoPrev
    /\ crashed = NoCrash

(* OnDiskKeyIDManager::new over the directory as it is, returning Ok *)
New ==
    /\ ~Up
    /\ ~NewFails(CreateDirAll(disk, <<>>).disk)
    /\ \E store \in NewStores(CreateDirAll(disk, <<>>).disk) :
        /\ key_store' = store
        /\ expected' = [map |-> store, removed |-> {}]
    /\ manager' = "Ok"
    /\ disk' = CreateDirAll(disk, <<>>).disk
    /\ UNCHANGED <<readers, writers, call, obs, prev, crashed, conn>>

(* OnDiskKeyIDManager::new returning Err *)
NewFailed ==
    /\ ~Up
    /\ NewFails(CreateDirAll(disk, <<>>).disk)
    /\ manager' = "Err"
    /\ disk' = CreateDirAll(disk, <<>>).disk
    /\ UNCHANGED <<key_store, readers, writers, call, obs, expected, prev, crashed, conn>>

(* The process ends (teardown or crash) outside save_mapping: the map is   *)
(* gone, the directory stays                                                *)
Crash ==
    /\ Up
    /\ manager' = "none"
    /\ key_store' = EmptyMap
    /\ readers' = {}
    /\ writers' = {}
    /\ call' = NoCall
    /\ obs' = NoObs
    /\ expected' = NoExpected
    /\ prev' = [clean |-> TRUE, have |-> prev.clean,
                store |-> IF prev.clean THEN key_store ELSE <<>>]
    /\ crashed' = NoCrash
    /\ UNCHANGED <<disk, conn>>

(* RwLock::read *)
CanRead(i) == writers = {} /\ i \notin readers

AcquireRead(i) ==
    /\ Up
    /\ CanRead(i)
    /\ readers' = readers \cup {i}
    /\ prev' = [prev EXCEPT !.have = FALSE, !.store = <<>>]
    /\ crashed' = NoCrash
    /\ UNCHANGED <<manager, key_store, disk, writers, call, obs, expected, conn>>

(* get and exists under the read guard *)
Read(i, t) ==
    /\ Up
    /\ i \in readers
    /\ obs' = [by |-> i, op |-> "get", t |-> t, get |-> get(key_store, t),
               exists |-> exists(key_store, t), status |-> ""]
    /\ UNCHANGED <<manager, key_store, disk, readers, writers, call, expected, prev, crashed, conn>>

ReleaseRead(i) ==
    /\ Up
    /\ i \in readers
    /\ readers' = readers \ {i}
    /\ obs' = IF obs.by = i THEN NoObs ELSE obs
    /\ UNCHANGED <<manager, key_store, disk, writers, call, expected, prev, crashed, conn>>

(* A write lock that does not wait for the readers *)
CanWriteBesideReaders(i) == writers = {}

(* RwLock::write *)
CanWrite(i) == writers = {} /\ readers = {}

AcquireWrite(i) ==
    /\ Up
    /\ CanWrite(i)
    /\ writers' = writers \cup {i}
    /\ prev' = [prev EXCEPT !.have = FALSE, !.store = <<>>]
    /\ crashed' = NoCrash
    /\ UNCHANGED <<manager, key_store, disk, readers, call, obs, expected, conn>>

(* A call under the write guard has run to its return *)
Completed(op, t, key_id, r, status) ==
    /\ key_store' = r.store
    /\ disk' = r.disk
    /\ call' = [op |-> op, t |-> t, key_id |-> key_id, status |-> status, ret |-> r.ret,
                before |-> key_store, hist |-> HistGet(expected.map, t)]
    /\ expected' = ExpectedAfter(op, t, key_id, status)
    /\ prev' = [prev EXCEPT !.clean = prev.clean /\ r.res # "Err"]
    /\ UNCHANGED <<manager, readers, writers, obs, crashed, conn>>

Insert(i, t, key_id, fault) ==
    /\ Up
    /\ i \in writers
    /\ call.op = "none"
    /\ \E r \in {insert(key_store, disk, t, key_id, fault)} :
          Completed("insert", t, key_id, r, r.res)

Remove(i, t, fault) ==
    /\ Up
    /\ i \in writers
    /\ call.op = "none"
    /\ \E r \in {remove(key_store, disk, t, fault)} :
          Completed("remove", t, <<>>, r, r.res)

(* An operation passed by execute_request to the provider, which takes the *)
(* read guard to export and the write guard to create, import or destroy   *)
Execute(i, operation, t, key_id, fault) ==
    /\ Up
    /\ LET method == ProvideMethod(operation)
       IN  IF method = "export_public_key"
           THEN /\ i \in readers
                /\ obs' = [by |-> i, op |-> operation, t |-> t, get |-> None, exists |-> FALSE,
                           status |-> export_public_key(key_store, t)]
                /\ UNCHANGED <<manager, key_store, disk, readers, writers, call, expected,
                               prev, crashed, conn>>
           ELSE /\ i \in writers
                /\ call.op = "none"
                /\ method \in {"create_key", "import_key", "destroy_key"}
                /\ \E r \in {IF method = "destroy_key"
                            THEN destroy_key(key_store, disk, t, fault)
                            ELSE create_key(key_store, disk, t, key_id, fault)} :
                      Completed(operation, t, key_id, r, r.status)

(* The process dies inside save_mapping, before the file-system call the   *)
(* fault names (or after the last one, before the map is updated)          *)
InsertCrash(i, t, key_id, fault) ==
    /\ Up
    /\ i \in writers
    /\ call.op = "none"
    /\ disk' = save_mapping(disk, t, key_id, fault).disk
    /\ crashed' = [valid |-> TRUE, t |-> t, key_id |-> key_id,
                   old |-> FileAt(disk, KeyNameFilePath(t))]
    /\ manager' = "none"
    /\ key_store' = EmptyMap
    /\ readers' = {}
    /\ writers' = {}
    /\ call' = NoCall
    /\ obs' = NoObs
    /\ expected' = NoExpected
    /\ prev' = NoPrev
    /\ UNCHANGED conn

(* The call returns and the write guard is dropped *)
ReleaseWrite(i) ==
    /\ Up
    /\ i \in writers
    /\ call.op # "none"
    /\ writers' = writers \ {i}
    /\ call' = NoCall
    /\ UNCHANGED <<manager, key_store, disk, readers, obs, expected, prev, crashed, conn>>

StoreNext(threads, triples, key_ids) ==
    \/ New
    \/ Crash
    \/ \E i \in threads : AcquireRead(i)
    \/ \E i \in threads, t \in triples : Read(i, t)
    \/ \E i \in threads : ReleaseRead(i)
    \/ \E i \in threads : AcquireWrite(i)
    \/ \E i \in threads, t \in triples, key_id \in key_ids :
          \E fault \in Faults(key_id) : Insert(i, t, key_id, fault)
    \/ \E i \in threads, t \in triples : \E fault \in Faults(<<>>) : Remove(i, t, fault)
    \/ \E i \in threads, operation \in KeyOperations, t \in triples, key_id \in key_ids :
          \E fault \in Faults(key_id) : Execute(i, operation, t, key_id, fault)
    \/ \E i \in threads, t \in triples, key_id \in key_ids :
          \E fault \in Faults(key_id) : InsertCrash(i, t, key_id, fault)
    \/ \E i \in threads : ReleaseWrite(i)

Init == StoreInit /\ conn = NoConn

(* One thread calling the store, with I/O faults, crashes and restarts *)
Next == StoreNext({1}, InputTriples, KeyIds)

Spec == Init /\ [][Next]_vars

(* The provider threads sharing the store *)
ThreadsNext == StoreNext(Threads, SharedTriples, SharedKeyIds)

SpecThreads == Init /\ [][ThreadsNext]_vars

----------------------------------------------------------------------------
(* Construction over a directory that holds more than the store wrote *)

(* Mapping files found in the directory: of "a" and "b"; below an          *)
(* application directory "!!" that is not base64; named "k", not base64;   *)
(* below "_w==", base64 of the byte 0xFF, not UTF-8; below a provider      *)
(* directory "zz"; below a provider directory "9"; below an application    *)
(* directory whose name is the byte 0xFF                                   *)
FoundFiles ==
    {[path |-> <<Base64Encode(<<97>>), U8ToString(1), Base64Encode(<<107>>)>>, data |-> <<17, 34>>],
     [path |-> <<Base64Encode(<<98>>), U8ToString(1), Base64Encode(<<107>>)>>, data |-> <<51>>],
     [path |-> <<<<33, 33>>, U8ToString(1), Base64Encode(<<107>>)>>, data |-> <<1>>],
     [path |-> <<Base64Encode(<<97>>), U8ToString(1), <<107>>>>, data |-> <<2>>],
     [path |-> <<Base64Encode(<<255>>), U8ToString(1), Base64Encode(<<107>>)>>, data |-> <<3>>],
     [path |-> <<Base64Encode(<<97>>), <<122, 122>>, Base64Encode(<<107>>)>>, data |-> <<4>>],
     [path |-> <<Base64Encode(<<98>>), U8ToString(9), Base64Encode(<<107>>)>>, data |-> <<5>>],
     [path |-> <<<<255>>, U8ToString(1), Base64Encode(<<107>>)>>, data |-> <<6>>]}

DirectoryWith(files) ==
    LET paths == {f.path : f \in files}
        dirs == {<<>>} \cup {SubSeq(p, 1, 1) : p \in paths} \cup {SubSeq(p, 1, 2) : p \in paths}
    IN  [p \in dirs \cup paths |->
            IF p \in paths THEN FileNode((CHOOSE f \in files : f.path = p).data) ELSE DirNode]

RecoveryInit ==
    /\ manager = "none"
    /\ key_store = EmptyMap
    /\ \E files \in SUBSET FoundFiles : disk = DirectoryWith(files)
    /\ readers = {}
    /\ writers = {}
    /\ call = NoCall
    /\ obs = NoObs
    /\ expected = NoExpected
    /\ prev = NoPrev
    /\ crashed = NoCrash
    /\ conn = NoConn

RecoveryNext ==
    \/ manager = "none" /\ New
    \/ manager = "none" /\ NewFailed

SpecRecovery == RecoveryInit /\ [][RecoveryNext]_vars

----------------------------------------------------------------------------
(* FrontEndHandler::handle_request, one invocation per accepted stream *)

MaxRequests == 3

NumConnections == 2

Connections == 1..NumConnections

(* What Request::read_from_stream hands back: a request, its header of     *)
(* these values and its authentication bytes among these, or one of these  *)
(* statuses                                                                 *)
AuthTypes == {"NoAuth", "Direct", "Other"}

Sessions == {7, 9}

Versions == {<<1, 0>>, <<1, 1>>}

RequestHeaders ==
    {RequestHeader(v[1], v[2], provider, session, content_type, accept_type, auth_type, opcode) :
        v \in Versions, provider \in {0, 1, 2}, session \in Sessions,
        content_type \in {0, 1}, accept_type \in {0, 1}, auth_type \in AuthTypes,
        opcode \in {OpcodeOf("Ping"), OpcodeOf("CreateKey"), OpcodeOf("DestroyKey")}}

AuthBytes == {<<>>, <<97>>}

Requests == [header : RequestHeaders, auth : AuthBytes]

(* The requests of one connection after another *)
SequentialRequests == {r \in Requests : r.header.session = 7}

(* The requests of the connections served at the same time *)
ConcurrentRequests ==
    {r \in Requests :
        /\ r.header.content_type = 0 /\ r.header.accept_type = 0
        /\ r.header.opcode = (IF r.header.session = 7 THEN OpcodeOf("Ping")
                                                      ELSE OpcodeOf("CreateKey"))
        /\ r.header.auth_type \in {"Direct", "Other"}
        /\ r.header.provider \in {0, 2}
        /\ Cardinality({k \in 1..4 : <<r.header.auth_type = "Other", r.auth = <<>>,
                                       r.header.provider = 2,
                                       r.header.version_min = 1>>[k]}) <= 1}

ConcurrentOutcomes == {o \in Outcomes : o.provider = "Ok" /\ o.encode = "Ok"}

ReadFailures == {"InvalidHeader", "ConnectionError"}

(* The statuses read_from_stream fails with once it has decoded the header *)
BodyReadFailures == {"BodyLenTooLarge", "ConnectionError"}

(* body_len and auth_len of the header of a request with a short body, and *)
(* of requests around the default and the configured limits                *)
SmallLens == {<<0, 1>>}

LargeLens == {<<0, 0>>, <<1, 0>>, <<1, 1>>, <<2, 0>>, <<524288, 524288>>, <<1048576, 0>>,
              <<1048576, 1>>, <<1048575, 2>>, <<2097152, 0>>, <<0, 65535>>}

(* core_settings.body_len_limit of the configuration *)
ConfiguredLimits == {None, Some(1), Some(65535), Some(2097152)}

(* The authentication types build_service registers an authenticator for *)
RegisteredAuthTypes == {"Direct"}

(* The handlers the dispatcher of the service holds *)
BackendHandlers == build_backend_handlers(RegisteredProviders)

(* Authenticate::authenticate: the authentication bytes are the name of    *)
(* the application, and bytes that are no name are rejected                *)
authenticate(auth) ==
    IF auth = <<>> \/ ~Utf8Valid(auth)
    THEN [ok |-> FALSE, app_name |-> <<>>, status |-> "AuthenticationError"]
    ELSE [ok |-> TRUE, app_name |-> auth, status |-> "Success"]

(* A handler that looks every authentication type up in the registry *)
RouteWithoutNoAuth(no_auth_branch, authenticators, auth_type, authentic) ==
    IF auth_type \in authenticators
    THEN IF authentic THEN "dispatch" ELSE "authentication_failed"
    ELSE "authenticator_not_registered"

(* A handler that dispatches what it finds no authenticator for *)
RouteUnregisteredDispatched(no_auth_branch, authenticators, auth_type, authentic) ==
    IF no_auth_branch /\ auth_type = "NoAuth" THEN "dispatch_no_auth"
    ELSE IF auth_type \in authenticators /\ ~authentic THEN "authentication_failed"
    ELSE "dispatch"

(* A handler that takes the authentication bytes of a NoAuth request for   *)
(* the name of the application                                             *)
RouteNoAuthAsDeclared(no_auth_branch, authenticators, auth_type, authentic) ==
    IF no_auth_branch /\ auth_type = "NoAuth"
    THEN IF authentic THEN "dispatch" ELSE "dispatch_no_auth"
    ELSE IF auth_type \in authenticators
    THEN IF authentic THEN "dispatch" ELSE "authentication_failed"
    ELSE "authenticator_not_registered"

(* The branch handle_request answers a decoded request on *)
Route(no_auth_branch, authenticators, auth_type, authentic) ==
    IF no_auth_branch /\ auth_type = "NoAuth" THEN "dispatch_no_auth"
    ELSE IF auth_type \in authenticators
    THEN IF authentic THEN "dispatch" ELSE "authentication_failed"
    ELSE "authenticator_not_registered"

(* A handler that writes again after a failed write *)
RetryFailedWrite(ok) == IF ok THEN "returned" ELSE "write"

(* After write_to_stream the outcome is logged and handle_request returns *)
PcAfterWrite(ok) == "returned"

FrontEndInitOver(conns, builds, registries, limits) ==
    /\ StoreInit
    /\ \E b \in builds, registry \in registries, configured \in limits :
          conn = [c \in conns |-> [NoConn EXCEPT !.no_auth_branch = b,
                                                 !.authenticators = registry,
                                                 !.configured = configured,
                                                 !.body_len_limit = BodyLenLimit(configured)]]

FrontEndInit ==
    FrontEndInitOver({1}, BOOLEAN, {RegisteredAuthTypes, RegisteredAuthTypes \cup {"NoAuth"}},
                     {None})

(* The listener passes the next stream to handle_request *)
HandleRequest(c, max) ==
    /\ conn[c].pc \in {"none", "returned"}
    /\ conn[c].handled < max
    /\ conn' = [conn EXCEPT ![c] = [NoConn EXCEPT
                                      !.no_auth_branch = conn[c].no_auth_branch,
                                      !.authenticators = conn[c].authenticators,
                                      !.configured = conn[c].configured,
                                      !.body_len_limit = conn[c].body_len_limit,
                                      !.handled = conn[c].handled + 1,
                                      !.pc = "read"]]
    /\ UNCHANGED <<manager, key_store, disk, readers, writers, call, obs, expected, prev, crashed>>

(* Request::read_from_stream returns Ok(request); a build without the      *)
(* NoAuth branch has no NoAuth among its authentication types              *)
ReadRequestOk(c, request, lens) ==
    /\ conn[c].pc = "read"
    /\ conn[c].no_auth_branch \/ request.header.auth_type # "NoAuth"
    /\ SizeGuard(lens[1], lens[2], conn[c].body_len_limit) = "Ok"
    /\ conn' = [conn EXCEPT ![c].reads = @ + 1, ![c].read = "Ok",
                            ![c].body_len = lens[1], ![c].auth_len = lens[2],
                            ![c].allocated = lens[1] + lens[2],
                            ![c].header_decoded = TRUE,
                            ![c].request = request.header, ![c].auth = request.auth,
                            ![c].pc = "respond"]
    /\ UNCHANGED <<manager, key_store, disk, readers, writers, call, obs, expected, prev, crashed>>

(* Request::read_from_stream returns Err(status): Response::from_status *)
ReadRequestErr(c, status) ==
    /\ conn[c].pc = "read"
    /\ conn' = [conn EXCEPT ![c].reads = @ + 1, ![c].read = status,
                            ![c].response = from_status(status),
                            ![c].path = "read_failed", ![c].pc = "write"]
    /\ UNCHANGED <<manager, key_store, disk, readers, writers, call, obs, expected, prev, crashed>>

(* Request::read_from_stream decodes the header and then returns           *)
(* Err(status) for the body or the authentication bytes:                   *)
(* Response::from_status                                                    *)
ReadRequestBodyErr(c, request, lens, status) ==
    /\ conn[c].pc = "read"
    /\ conn[c].no_auth_branch \/ request.header.auth_type # "NoAuth"
    /\ status = "BodyLenTooLarge" <=>
          SizeGuard(lens[1], lens[2], conn[c].body_len_limit) = "BodyLenTooLarge"
    /\ conn' = [conn EXCEPT ![c].reads = @ + 1, ![c].read = status,
                            ![c].body_len = lens[1], ![c].auth_len = lens[2],
                            ![c].allocated = IF status = "BodyLenTooLarge" THEN 0
                                             ELSE lens[1] + lens[2],
                            ![c].header_decoded = TRUE,
                            ![c].request = request.header,
                            ![c].response = from_status(status),
                            ![c].path = "read_failed", ![c].pc = "write"]
    /\ UNCHANGED <<manager, key_store, disk, readers, writers, call, obs, expected, prev, crashed>>

(* The response to a decoded request: from the dispatcher, or from the     *)
(* request header with the status of the failure                           *)
Respond(c, outcome) ==
    /\ conn[c].pc = "respond"
    /\ \E path \in {Route(conn[c].no_auth_branch, conn[c].authenticators,
                          conn[c].request.auth_type, authenticate(conn[c].auth).ok)} :
       \E identity \in {IF path = "dispatch"
                        THEN Some(authenticate(conn[c].auth).app_name) ELSE None} :
       \E r \in {dispatch_request(BackendHandlers, conn[c].request, identity, outcome)} :
          conn' = [conn EXCEPT
                     ![c].path = path,
                     ![c].consulted = IF path \in {"dispatch", "authentication_failed"}
                                      THEN conn[c].request.auth_type ELSE "none",
                     ![c].dispatches = IF path \in {"dispatch", "dispatch_no_auth"}
                                       THEN @ + 1 ELSE @,
                     ![c].identity = identity,
                     ![c].handler = IF path \in {"dispatch", "dispatch_no_auth"}
                                    THEN r.handler ELSE None,
                     ![c].calls = IF path \in {"dispatch", "dispatch_no_auth"}
                                  THEN r.calls ELSE <<>>,
                     ![c].given = IF path \in {"dispatch", "dispatch_no_auth"}
                                  THEN r.given ELSE None,
                     ![c].outcome = IF path \in {"dispatch", "dispatch_no_auth"}
                                    THEN outcome ELSE NoOutcome,
                     ![c].response =
                         IF path \in {"dispatch", "dispatch_no_auth"} THEN r.response
                         ELSE IF path = "authentication_failed"
                         THEN from_request_header(conn[c].request,
                                                  authenticate(conn[c].auth).status)
                         ELSE from_request_header(conn[c].request,
                                                  "AuthenticatorNotRegistered"),
                     ![c].pc = "write"]
    /\ UNCHANGED <<manager, key_store, disk, readers, writers, call, obs, expected, prev, crashed>>

(* response.write_to_stream, which may fail *)
WriteResponse(c, ok) ==
    /\ conn[c].pc = "write"
    /\ conn' = [conn EXCEPT ![c].writes = @ + 1, ![c].write_ok = ok,
                            ![c].pc = PcAfterWrite(ok)]
    /\ UNCHANGED <<manager, key_store, disk, readers, writers, call, obs, expected, prev, crashed>>

FrontEndNextOver(conns, requests, sizes, outcomes, max) ==
    \E c \in conns :
        \/ HandleRequest(c, max)
        \/ \E request \in requests, lens \in sizes : ReadRequestOk(c, request, lens)
        \/ \E status \in ReadFailures : ReadRequestErr(c, status)
        \/ \E request \in requests, lens \in sizes, status \in BodyReadFailures :
              ReadRequestBodyErr(c, request, lens, status)
        \/ \E outcome \in outcomes : Respond(c, outcome)
        \/ \E ok \in BOOLEAN : WriteResponse(c, ok)

FrontEndNext == FrontEndNextOver({1}, SequentialRequests, SmallLens, Outcomes, MaxRequests)

SpecFrontEnd == FrontEndInit /\ [][FrontEndNext]_vars

(* The worker threads serve one connection each at the same time *)
ConnectionsInit == FrontEndInitOver(Connections, {TRUE}, {RegisteredAuthTypes}, {None})

ConnectionsNext ==
    FrontEndNextOver(Connections, ConcurrentRequests, SmallLens, ConcurrentOutcomes, 1)

(* One connection of a service with a configured limit, and requests with  *)
(* sizes around the limits                                                  *)
SizedRequests ==
    {r \in SequentialRequests :
        /\ r.header.provider = 0 /\ r.header.content_type = 0 /\ r.header.accept_type = 0
        /\ r.header.version_min = 0 /\ r.header.auth_type \in {"NoAuth", "Direct"}
        /\ r.auth # <<>> /\ r.header.opcode = OpcodeOf("Ping")}

SizeInit == FrontEndInitOver({1}, {TRUE}, {RegisteredAuthTypes}, ConfiguredLimits)

SizeNext == FrontEndNextOver({1}, SizedRequests, LargeLens, ConcurrentOutcomes, 1)

SpecSize == SizeInit /\ [][SizeNext]_vars

SpecConnections == ConnectionsInit /\ [][ConnectionsNext]_vars

----------------------------------------------------------------------------
(* is_capable and execute_request of a handler of any configuration *)

CapableHandlers ==
    {BackEndHandler(provider_id, content_type, accept_type, v[1], v[2]) :
        provider_id \in {0, 1}, content_type \in {0, 1}, accept_type \in {0, 1},
        v \in Versions}

CapableHeaders ==
    {RequestHeader(version_maj, version_min, provider, 7, content_type, accept_type,
                   "Direct", OpcodeOf("CreateKey")) :
        version_maj \in {0, 1, 2}, version_min \in {0, 1}, provider \in {0, 1},
        content_type \in {0, 1}, accept_type \in {0, 1}}

(* A handler and the header of a request handed to it *)
CapableInit ==
    /\ StoreInit
    /\ \E backend \in CapableHandlers, header \in CapableHeaders :
          conn = [pc |-> "is_capable", backend |-> backend, request |-> header,
                  capable |-> "none", outcome |-> NoOutcome,
                  response |-> Response_new, calls |-> <<>>]

(* backend.is_capable(&request) *)
IsCapable ==
    /\ conn.pc = "is_capable"
    /\ conn' = [conn EXCEPT !.capable = is_capable(conn.backend, conn.request),
                            !.pc = "checked"]
    /\ UNCHANGED <<manager, key_store, disk, readers, writers, call, obs, expected, prev, crashed>>

(* The request is answered with the status is_capable refused it with *)
RefuseIncapable ==
    /\ conn.pc = "checked"
    /\ conn.capable # "Ok"
    /\ conn' = [conn EXCEPT !.response = from_request_header(conn.request, conn.capable),
                            !.pc = "done"]
    /\ UNCHANGED <<manager, key_store, disk, readers, writers, call, obs, expected, prev, crashed>>

(* backend.execute_request(request, app_name) *)
ExecuteCapable(outcome) ==
    /\ conn.pc = "checked"
    /\ conn.capable = "Ok"
    /\ \E r \in {execute_request(conn.request, <<97>>, outcome)} :
          conn' = [conn EXCEPT !.outcome = outcome, !.response = r.response,
                                  !.calls = r.calls, !.pc = "done"]
    /\ UNCHANGED <<manager, key_store, disk, readers, writers, call, obs, expected, prev, crashed>>

CapableNext ==
    \/ IsCapable
    \/ RefuseIncapable
    \/ \E outcome \in Outcomes : ExecuteCapable(outcome)

SpecCapable == CapableInit /\ [][CapableNext]_vars

----------------------------------------------------------------------------
(* The wire format of a response *)

MAGIC_NUMBER == 1589683984

RESPONSE_HDR_SIZE == 20

(* The value of the bytes of a little-endian integer *)
RECURSIVE LittleEndian(_)
LittleEndian(bytes) ==
    IF bytes = <<>> THEN 0
    ELSE bytes[1] + 256 * LittleEndian(SubSeq(bytes, 2, Len(bytes)))

(* get_from_stream!: the next size bytes of the stream from position on,   *)
(* or the error of a stream that ends before them                          *)
get_from_stream(stream, position, size) ==
    IF position + size <= Len(stream)
    THEN [ok |-> TRUE, bytes |-> SubSeq(stream, position + 1, position + size),
          position |-> position + size]
    ELSE [ok |-> FALSE, bytes |-> <<>>, position |-> Len(stream)]

ReadErr(kind, position) ==
    [ok |-> FALSE, error |-> kind, header |-> ResponseHeader_new, body |-> <<>>,
     consumed |-> position]

(* bincode::deserialize of the hdr_size bytes after magic and hdr_size *)
DeserializeHeader(bytes) ==
    [version_maj |-> bytes[1], version_min |-> bytes[2], provider |-> bytes[3],
     session |-> LittleEndian(SubSeq(bytes, 4, 11)), content_type |-> bytes[12],
     body_len |-> LittleEndian(SubSeq(bytes, 13, 16)),
     opcode |-> LittleEndian(SubSeq(bytes, 17, 18)),
     status |-> LittleEndian(SubSeq(bytes, 19, 20))]

(* read_from_stream after the check of magic and hdr_size: the fields *)
ReadHeaderFields(stream, fields) ==
    IF ~fields.ok THEN ReadErr("UnexpectedEof", fields.position)
    ELSE [ok |-> TRUE, error |-> "none", header |-> DeserializeHeader(fields.bytes),
          body |-> <<>>, consumed |-> fields.position]

(* A reader that reads the fields before it checks magic and hdr_size *)
CheckAfterFields(stream, magic_number, hdr_size) ==
    IF ~magic_number.ok \/ ~hdr_size.ok THEN ReadErr("UnexpectedEof", hdr_size.position)
    ELSE IF ~get_from_stream(stream, hdr_size.position, RESPONSE_HDR_SIZE).ok
    THEN ReadErr("UnexpectedEof", Len(stream))
    ELSE IF LittleEndian(magic_number.bytes) # MAGIC_NUMBER
            \/ LittleEndian(hdr_size.bytes) # RESPONSE_HDR_SIZE
    THEN ReadErr("InvalidData", hdr_size.position + RESPONSE_HDR_SIZE)
    ELSE ReadHeaderFields(stream,
             get_from_stream(stream, hdr_size.position, RESPONSE_HDR_SIZE))

(* read_from_stream after magic and hdr_size were read: the check *)
CheckMagicAndSize(stream, magic_number, hdr_size) ==
    IF ~magic_number.ok \/ ~hdr_size.ok THEN ReadErr("UnexpectedEof", hdr_size.position)
    ELSE IF LittleEndian(magic_number.bytes) # MAGIC_NUMBER
            \/ LittleEndian(hdr_size.bytes) # RESPONSE_HDR_SIZE
    THEN ReadErr("InvalidData", hdr_size.position)
    ELSE ReadHeaderFields(stream,
             get_from_stream(stream, hdr_size.position, LittleEndian(hdr_size.bytes)))

(* ResponseHeader::read_from_stream *)
ResponseHeader_read_from_stream(stream) ==
    CheckMagicAndSize(stream, get_from_stream(stream, 0, 4),
        IF get_from_stream(stream, 0, 4).ok THEN get_from_stream(stream, 4, 2)
        ELSE get_from_stream(stream, 0, 4))

(* Response::read_from_stream after the header: the body of body_len bytes *)
ReadBody(stream, header, body) ==
    IF ~header.ok THEN header
    ELSE IF ~body.ok THEN ReadErr("UnexpectedEof", body.position)
    ELSE [header EXCEPT !.body = body.bytes, !.consumed = body.position]

(* Response::read_from_stream *)
Response_read_from_stream(stream) ==
    ReadBody(stream, ResponseHeader_read_from_stream(stream),
        get_from_stream(stream, ResponseHeader_read_from_stream(stream).consumed,
                        ResponseHeader_read_from_stream(stream).header.body_len))

(* The bytes on a stream: four bytes of magic, two of hdr_size, the fields *)
(* and the body, complete or cut short                                     *)
MagicBytes == {<<16, 167, 192, 94>>, <<17, 167, 192, 94>>, <<16, 167, 192, 95>>,
               <<94, 192, 167, 16>>}

HdrSizeBytes == {<<20, 0>>, <<19, 0>>, <<20, 1>>, <<0, 20>>}

FieldBytes(body_len) ==
    <<1, 0, 1, 7, 0, 0, 0, 0, 0, 0, 0, 0, body_len, 0, 0, 0, 1, 0, 0, 0>>

RestBytes == {FieldBytes(2) \o <<112, 128>>, FieldBytes(2) \o <<112>>, FieldBytes(0),
              SubSeq(FieldBytes(0), 1, 10), <<>>}

Frames ==
    {magic \o hdr_size \o rest : magic \in MagicBytes, hdr_size \in HdrSizeBytes,
                                 rest \in RestBytes}
        \cup {SubSeq(<<16, 167, 192, 94, 20, 0>>, 1, n) : n \in 0..5}
        \cup {SubSeq(<<17, 167, 192, 94, 20, 0>>, 1, n) : n \in 4..5}

NoRead == [ok |-> FALSE, error |-> "none", header |-> ResponseHeader_new, body |-> <<>>,
           consumed |-> 0]

(* A stream with the bytes of a frame on it *)
CodecInit ==
    /\ StoreInit
    /\ \E stream \in Frames : conn = [pc |-> "read", stream |-> stream, result |-> NoRead]

(* Response::read_from_stream(&mut stream) *)
ReadFromStream ==
    /\ conn.pc = "read"
    /\ conn' = [conn EXCEPT !.result = Response_read_from_stream(conn.stream),
                            !.pc = "done"]
    /\ UNCHANGED <<manager, key_store, disk, readers, writers, call, obs, expected, prev, crashed>>

CodecNext == ReadFromStream

SpecCodec == CodecInit /\ [][CodecNext]_vars

(* bincode::serialize of an unsigned integer of width bytes: little-endian *)
RECURSIVE ToLittleEndian(_, _)
ToLittleEndian(n, width) ==
    IF width = 0 THEN <<>>
    ELSE <<n % 256>> \o ToLittleEndian(n \div 256, width - 1)

(* A writer that puts opcode and status before body_len *)
HeaderBytesLengthLast(header) ==
    ToLittleEndian(MAGIC_NUMBER, 4) \o ToLittleEndian(RESPONSE_HDR_SIZE, 2)
        \o <<header.version_maj, header.version_min, header.provider>>
        \o ToLittleEndian(header.session, 8) \o <<header.content_type>>
        \o ToLittleEndian(header.opcode, 2) \o ToLittleEndian(header.status, 2)
        \o ToLittleEndian(header.body_len, 4)

(* ResponseHeader::write_to_stream: bincode::serialize(&self), the fields  *)
(* of the struct in their order                                            *)
ResponseHeader_write_to_stream(header) ==
    ToLittleEndian(MAGIC_NUMBER, 4) \o ToLittleEndian(RESPONSE_HDR_SIZE, 2)
        \o <<header.version_maj, header.version_min, header.provider>>
        \o ToLittleEndian(header.session, 8) \o <<header.content_type>>
        \o ToLittleEndian(header.body_len, 4)
        \o ToLittleEndian(header.opcode, 2) \o ToLittleEndian(header.status, 2)

(* Response::write_to_stream: the header, then the bytes of the body *)
Response_write_to_stream(response) ==
    ResponseHeader_write_to_stream(response.header) \o response.body

(* The responses handed to write_to_stream; body_len is a field of its own *)
(* and need not be the length of the body                                  *)
WireResponses ==
    {[header |-> [version_maj |-> v[1], version_min |-> v[2], provider |-> provider,
                  session |-> session, content_type |-> content_type,
                  body_len |-> body_len, opcode |-> opcode, status |-> status],
      body |-> body] :
        v \in {<<222, 240>>, <<1, 0>>}, provider \in {0, 1}, session \in {7, 3351057},
        content_type \in {0, 153}, body_len \in {0, 2, 3}, opcode \in {1, 48076},
        status \in {0, 56814}, body \in {<<>>, <<112, 128>>, <<112, 128, 144>>}}

(* A response and the stream it is written to and read back from *)
RoundTripInit ==
    /\ StoreInit
    /\ \E response \in WireResponses :
          conn = [pc |-> "write", response |-> response, stream |-> <<>>,
                  result |-> NoRead]

(* response.write_to_stream(&mut stream) *)
WriteToStream ==
    /\ conn.pc = "write"
    /\ conn' = [conn EXCEPT !.stream = Response_write_to_stream(conn.response),
                            !.pc = "read"]
    /\ UNCHANGED <<manager, key_store, disk, readers, writers, call, obs, expected, prev, crashed>>

RoundTripNext ==
    \/ WriteToStream
    \/ ReadFromStream

SpecRoundTrip == RoundTripInit /\ [][RoundTripNext]_vars

----------------------------------------------------------------------------
(* The Trusted Service provider over the key store *)

(* ProviderId::TrustedService *)
TrustedService == 4

PSA_KEY_ID_USER_MIN == 1

(* The highest key id of the model; 0x3fffffff in psa_crypto *)
PSA_KEY_ID_USER_MAX == 4

(* The values of an AtomicU32, in the proportion of 2^32 to 2^30 *)
U32 == 4 * (PSA_KEY_ID_USER_MAX + 1)

NumCreators == 2

Creators == 1..NumCreators

(* Thread i serves the client named by the i-th letter, whose key is "k" *)
TripleOf(i) == KeyTriple(<<96 + i>>, TrustedService, <<107>>)

TrustedTriples == {TripleOf(i) : i \in Creators}

(* The key id as the store holds it: bincode of a u32 *)
KeyIdBytes(key_id) == ToLittleEndian(key_id, 4)

(* key_info_store.get_key_id: the stored bytes deserialized to a u32 *)
get_key_id(ks, t) ==
    IF Len(ks[t]) = 4 THEN Some(LittleEndian(ks[t])) ELSE None

(* The I/O faults of the store calls of the provider: none, and write_all *)
(* failing before the first byte                                           *)
TrustedFaults == {NoFault, [step |-> 4, n |-> 0]}

(* format_error!: the error only when GlobalConfig::log_error_details() *)
format_error(log_error_details, message, error) ==
    IF log_error_details THEN [message |-> message, details |-> <<error>>]
    ELSE [message |-> message, details |-> <<>>]

(* Provider::new, the loop over get_all: the triples whose key id cannot  *)
(* be read                                                                 *)
ToRemove(ks) == {t \in get_all(ks, TrustedService) : ~get_key_id(ks, t).some}

(* error! of the loop: the triple and the status, whatever the flag *)
KeyIdErrorLines(ks) ==
    {[message |-> "Error getting the Key ID for triple", details |-> <<t, "InvalidEncoding">>] :
        t \in ToRemove(ks)}

LoadedKeyIds(ks) ==
    {get_key_id(ks, t).v : t \in get_all(ks, TrustedService) \ ToRemove(ks)}

(* A counter started at the lowest id whatever the store holds *)
MaxKeyIdOfUserMin(ks) == PSA_KEY_ID_USER_MIN

(* The lowest key id read in place of the highest *)
MinKeyId(ks) ==
    CHOOSE m \in LoadedKeyIds(ks) \cup {PSA_KEY_ID_USER_MIN} :
        \A k \in LoadedKeyIds(ks) \cup {PSA_KEY_ID_USER_MIN} : m <= k

(* Provider::new: max_key_id, the highest key id read, PSA_KEY_ID_USER_MIN *)
(* at least                                                                 *)
MaxKeyId(ks) ==
    CHOOSE m \in LoadedKeyIds(ks) \cup {PSA_KEY_ID_USER_MIN} :
        \A k \in LoadedKeyIds(ks) \cup {PSA_KEY_ID_USER_MIN} : k <= m

(* Provider::new, the loop over to_remove, as far as it went *)
RECURSIVE RemoveKeyInfos(_, _, _)
RemoveKeyInfos(ks, d, triples) ==
    IF triples = {} THEN [store |-> ks, disk |-> d]
    ELSE LET t == CHOOSE x \in triples : TRUE
             r == remove(ks, d, t, NoFault)
         IN  RemoveKeyInfos(r.store, r.disk, triples \ {t})

(* The error string of a get_all that fails *)
GetAllError == <<101, 114, 114>>

(* error! of a failed get_all: the error string, whatever the flag *)
GetAllErrorLine ==
    [message |-> "Key Info Manager error when obtaining handles", details |-> GetAllError]

(* A Provider::new that removes no triple *)
ProviderNewWithoutRemoval(ks, d, listed, failing, before) ==
    [ok |-> listed /\ failing = NoTriple, store |-> ks, disk |-> d,
     id_counter |-> IF listed /\ failing = NoTriple THEN MaxKeyId(ks) ELSE PSA_KEY_ID_USER_MIN,
     lines |-> IF listed THEN KeyIdErrorLines(ks) ELSE {GetAllErrorLine}]

(* Provider::new over the store; listed tells whether get_all returned Ok, *)
(* failing is the triple whose remove_key_info fails (NoTriple: none),     *)
(* before the triples removed before it                                    *)
Provider_new(ks, d, listed, failing, before) ==
    IF ~listed
    THEN [ok |-> FALSE, store |-> ks, disk |-> d, id_counter |-> PSA_KEY_ID_USER_MIN,
          lines |-> {GetAllErrorLine}]
    ELSE LET after == RemoveKeyInfos(ks, d, before)
         IN  [ok |-> failing = NoTriple, store |-> after.store, disk |-> after.disk,
              id_counter |-> IF failing = NoTriple THEN MaxKeyId(ks)
                             ELSE PSA_KEY_ID_USER_MIN,
              lines |-> KeyIdErrorLines(ks)]

(* The mapping files a start of the service may find: of keys of "a" and  *)
(* "b" at the Trusted Service, one of them cut short, and of a key at the  *)
(* Mbed provider                                                            *)
TrustedFiles ==
    {files \in SUBSET {
        [path |-> KeyNameFilePath(KeyTriple(<<97>>, TrustedService, <<107>>)), data |-> KeyIdBytes(2)],
        [path |-> KeyNameFilePath(KeyTriple(<<98>>, TrustedService, <<107>>)), data |-> KeyIdBytes(3)],
        [path |-> KeyNameFilePath(KeyTriple(<<98>>, TrustedService, <<107>>)), data |-> <<3>>],
        [path |-> KeyNameFilePath(KeyTriple(<<97>>, 1, <<107>>)), data |-> <<51>>]} :
        \A f, g \in files : f.path = g.path => f = g}

NoCreator == [pc |-> "idle", t |-> NoTriple, new_key_id |-> 0]

Down(backend, log_error_details) ==
    [pc |-> "down", log_error_details |-> log_error_details, backend |-> backend,
     id_counter |-> PSA_KEY_ID_USER_MIN, loaded |-> {}, handed |-> <<>>, log |-> {},
     creator |-> [i \in Creators |-> NoCreator]]

(* The key ids of the mapping files of the Trusted Service provider *)
KeyIdsOfFiles(files) ==
    {LittleEndian(f.data) : f \in {g \in files : g.path[2] = U8ToString(TrustedService) /\ Len(g.data) = 4}}

(* The directory and the keys of the Trusted Service at the start of the  *)
(* service, and the log_error_details of its configuration; lost tells     *)
(* which keys the Trusted Service may have lost while the service was down *)
TrustedInitOver(flags, lost) ==
    /\ manager = "none"
    /\ key_store = EmptyMap
    /\ \E files \in TrustedFiles :
          /\ disk = DirectoryWith(files)
          /\ \E gone \in SUBSET (KeyIdsOfFiles(files) \cap lost), log_error_details \in flags :
                conn = Down(KeyIdsOfFiles(files) \ gone, log_error_details)
    /\ readers = {}
    /\ writers = {}
    /\ call = NoCall
    /\ obs = NoObs
    /\ expected = NoExpected
    /\ prev = NoPrev
    /\ crashed = NoCrash

(* The service with log_error_details unset, over a Trusted Service that   *)
(* holds the keys of the store                                              *)
TrustedInit == TrustedInitOver({FALSE}, {})

(* ProviderBuilder::build, Provider::new over the constructed store, and   *)
(* build_providers' format_error! when it returns Err                      *)
ProviderNew(listed, failing, before) ==
    /\ Up
    /\ conn.pc = "down"
    /\ failing \in ToRemove(key_store) \cup {NoTriple}
    /\ before \subseteq ToRemove(key_store) \ {failing}
    /\ failing = NoTriple => before = ToRemove(key_store)
    /\ ~listed => (failing = NoTriple /\ before = ToRemove(key_store))
    /\ \E r \in {Provider_new(key_store, disk, listed, failing, before)} :
          /\ key_store' = r.store
          /\ disk' = r.disk
          /\ conn' = [conn EXCEPT
                !.pc = IF r.ok THEN "running" ELSE "failed",
                !.id_counter = r.id_counter,
                !.loaded = IF r.ok THEN LoadedKeyIds(key_store) ELSE {},
                !.log = r.lines \cup
                        IF r.ok THEN {}
                        ELSE {format_error(conn.log_error_details,
                                           "Provider with ID cannot be created",
                                           IF listed THEN failing ELSE GetAllError)}]
    /\ UNCHANGED <<manager, readers, writers, call, obs, expected, prev, crashed>>

(* psa_generate_key of thread i for a key that is not in the store, up to  *)
(* the fetch_add of create_key_id: the new id is id_counter + 1            *)
FetchAdd(i) ==
    /\ conn.pc = "running"
    /\ conn.creator[i].pc = "idle"
    /\ ~exists(key_store, TripleOf(i))
    /\ \E new_key_id \in {(conn.id_counter + 1) % U32} :
          conn' = [conn EXCEPT
                !.id_counter = new_key_id,
                !.handed = IF new_key_id <= PSA_KEY_ID_USER_MAX
                           THEN Append(conn.handed, new_key_id) ELSE conn.handed,
                !.creator[i] = [pc |-> "fetched", t |-> TripleOf(i), new_key_id |-> new_key_id]]
    /\ UNCHANGED <<manager, key_store, disk, readers, writers, call, obs, expected, prev, crashed>>

(* create_key_id after the fetch_add: an id above the highest allowed one  *)
(* is refused and the counter is put back to the highest allowed id        *)
CheckKeyId(i) ==
    /\ conn.pc = "running"
    /\ conn.creator[i].pc = "fetched"
    /\ conn' = IF conn.creator[i].new_key_id > PSA_KEY_ID_USER_MAX
               THEN [conn EXCEPT !.id_counter = PSA_KEY_ID_USER_MAX,
                                 !.creator[i] = NoCreator]
               ELSE [conn EXCEPT !.creator[i].pc = "generate"]
    /\ UNCHANGED <<manager, key_store, disk, readers, writers, call, obs, expected, prev, crashed>>

(* psa_generate_key after create_key_id: the key is generated in the       *)
(* Trusted Service under the new id and inserted in the store; it is       *)
(* destroyed again when the insert fails                                    *)
GenerateKey(i, fault) ==
    /\ conn.pc = "running"
    /\ conn.creator[i].pc = "generate"
    /\ \E r \in {insert(key_store, disk, conn.creator[i].t,
                        KeyIdBytes(conn.creator[i].new_key_id), fault)} :
          /\ key_store' = r.store
          /\ disk' = r.disk
          /\ conn' = [conn EXCEPT
                !.backend = IF r.res = "Ok" THEN conn.backend \cup {conn.creator[i].new_key_id}
                            ELSE conn.backend,
                !.creator[i] = NoCreator]
    /\ UNCHANGED <<manager, readers, writers, call, obs, expected, prev, crashed>>

(* psa_destroy_key of thread i for a key of the store *)
PsaDestroyKey(i, fault) ==
    /\ conn.pc = "running"
    /\ conn.creator[i].pc = "idle"
    /\ exists(key_store, TripleOf(i))
    /\ get_key_id(key_store, TripleOf(i)).some
    /\ \E r \in {remove(key_store, disk, TripleOf(i), fault)} :
          /\ key_store' = r.store
          /\ disk' = r.disk
          /\ conn' = [conn EXCEPT
                !.backend = IF r.res = "Ok" THEN conn.backend \ {get_key_id(key_store, TripleOf(i)).v}
                            ELSE conn.backend,
                !.creator[i] = NoCreator]
    /\ UNCHANGED <<manager, readers, writers, call, obs, expected, prev, crashed>>

(* The service stops: the provider and the map are gone, the directory     *)
(* and the keys of the Trusted Service stay                                 *)
Stop ==
    /\ Up
    /\ conn.pc \in {"running", "failed"}
    /\ manager' = "none"
    /\ key_store' = EmptyMap
    /\ conn' = Down(conn.backend, conn.log_error_details)
    /\ UNCHANGED <<disk, readers, writers, call, obs, expected, prev, crashed>>

TrustedNext ==
    \/ New
    \/ \E listed \in BOOLEAN, failing \in TrustedTriples \cup {NoTriple},
          before \in SUBSET TrustedTriples :
             ProviderNew(listed, failing, before)
    \/ \E i \in Creators : FetchAdd(i)
    \/ \E i \in Creators : CheckKeyId(i)
    \/ \E i \in Creators, fault \in TrustedFaults : GenerateKey(i, fault)
    \/ \E i \in Creators, fault \in {NoFault, [step |-> 2, n |-> 0]} : PsaDestroyKey(i, fault)
    \/ Stop

SpecTrusted == TrustedInit /\ [][TrustedNext]_vars

(* The starts of the service, with log_error_details set or unset, over a  *)
(* Trusted Service that may have lost keys                                  *)
StartupInit == TrustedInitOver(BOOLEAN, {2, 3})

StartupNext ==
    \/ New
    \/ \E listed \in BOOLEAN, failing \in TrustedTriples \cup {NoTriple},
          before \in SUBSET TrustedTriples :
             ProviderNew(listed, failing, before)
    \/ Stop

SpecStartup == StartupInit /\ [][StartupNext]_vars

----------------------------------------------------------------------------
(* The accessors of a response header read from a stream *)

(* ResponseStatus, its values counted from Success = 0 *)
ResponseStatuses ==
    <<"Success", "WrongProviderID", "ContentTypeNotSupported", "AcceptTypeNotSupported",
      "VersionTooBig", "ProviderNotRegistered", "DeserializingBodyFailed",
      "SerializingBodyFailed", "AuthenticatorNotRegistered", "AuthenticationError",
      "BodyLenTooLarge", "KeyDoesNotExist", "KeyAlreadyExists", "PsaErrorGenericError">>

NotCalled == [called |-> FALSE, panic |-> FALSE, v |-> "none"]

(* ResponseHeader::status: FromPrimitive::from_u16, panic! on None *)
ResponseHeader_status(header) ==
    IF header.status + 1 \in DOMAIN ResponseStatuses
    THEN [called |-> TRUE, panic |-> FALSE, v |-> ResponseStatuses[header.status + 1]]
    ELSE [called |-> TRUE, panic |-> TRUE, v |-> "none"]

(* ResponseHeader::opcode: FromPrimitive::from_u16, panic! on None *)
ResponseHeader_opcode(header) ==
    IF header.opcode + 1 \in DOMAIN Operations
    THEN [called |-> TRUE, panic |-> FALSE, v |-> OperationOf(header.opcode)]
    ELSE [called |-> TRUE, panic |-> TRUE, v |-> "none"]

(* A stream with the bytes of a frame or of a written response on it *)
AccessorsInit ==
    /\ StoreInit
    /\ \E stream \in Frames \cup {Response_write_to_stream(response) : response \in WireResponses} :
          conn = [pc |-> "read", stream |-> stream, result |-> NoRead,
                  status |-> NotCalled, opcode |-> NotCalled]

(* response.header.status() on the response read *)
ReadStatus ==
    /\ conn.pc = "done"
    /\ conn.result.ok
    /\ ~conn.status.called
    /\ conn' = [conn EXCEPT !.status = ResponseHeader_status(conn.result.header)]
    /\ UNCHANGED <<manager, key_store, disk, readers, writers, call, obs, expected, prev, crashed>>

(* response.header.opcode() on the response read *)
ReadOpcode ==
    /\ conn.pc = "done"
    /\ conn.result.ok
    /\ ~conn.opcode.called
    /\ conn' = [conn EXCEPT !.opcode = ResponseHeader_opcode(conn.result.header)]
    /\ UNCHANGED <<manager, key_store, disk, readers, writers, call, obs, expected, prev, crashed>>

AccessorsNext ==
    \/ ReadFromStream
    \/ ReadStatus
    \/ ReadOpcode

SpecAccessors == AccessorsInit /\ [][AccessorsNext]_vars

----------------------------------------------------------------------------
(* The service builder and the Core provider *)

MaxConfigs == 2

(* [[provider]] entries of the configuration: the provider id, whether the *)
(* key info manager it names was built, whether get_provider returns Ok    *)
ProviderConfigs ==
    [provider_id : {1, 2}, key_info_manager : BOOLEAN, created : BOOLEAN]

RECURSIVE SeqsUpTo(_, _)
SeqsUpTo(S, n) ==
    IF n = 0 THEN {<<>>}
    ELSE SeqsUpTo(S, n - 1) \cup {Append(s, x) : s \in {q \in SeqsUpTo(S, n - 1) : Len(q) = n - 1}, x \in S}

(* A loop body that does not look for a provider of the same id *)
BuildProviderWithoutDuplicateCheck(list, config) ==
    IF ~config.key_info_manager THEN list
    ELSE IF ~config.created THEN list
    ELSE Append(list, config.provider_id)

(* build_providers, the body of the loop over the configuration: an entry  *)
(* is skipped when a provider of its id is in the list already, when its   *)
(* key info manager is not found or when the provider cannot be created    *)
BuildProvider(list, config) ==
    IF \E k \in 1..Len(list) : list[k] = config.provider_id THEN list
    ELSE IF ~config.key_info_manager THEN list
    ELSE IF ~config.created THEN list
    ELSE Append(list, config.provider_id)

(* build_providers: the providers in the order of the configuration *)
RECURSIVE build_providers(_)
build_providers(configs) ==
    IF configs = <<>> THEN <<>>
    ELSE BuildProvider(build_providers(SubSeq(configs, 1, Len(configs) - 1)),
                       configs[Len(configs)])

(* The lists of authenticators build_backend_handlers may be given;        *)
(* build_service registers Direct                                          *)
AuthenticatorLists ==
    {<<"Direct">>, <<"UnixPeerCredentials">>, <<"Direct", "UnixPeerCredentials">>,
     <<"UnixPeerCredentials", "Direct">>}

(* Provide::describe and Authenticate::describe *)
ProviderInfo(provider_id) == [id |-> provider_id]

AuthenticatorInfo(auth_type) == [id |-> auth_type]

(* CoreProviderBuilder: with_wire_protocol_version(version_min,            *)
(* version_maj), with_authenticator_info and with_provider in the order of *)
(* the calls, build: the Core provider's own info comes first              *)
CoreProviderBuilder(version_min, version_maj, authenticator_info, providers) ==
    [wire_protocol_version_maj |-> version_maj,
     wire_protocol_version_min |-> version_min,
     authenticator_info |-> authenticator_info,
     provider_info |-> <<ProviderInfo(0)>> \o [k \in 1..Len(providers) |-> ProviderInfo(providers[k])]]

(* A builder called with the major version first *)
CoreProviderMajorFirst(providers, authenticators) ==
    CoreProviderBuilder(WIRE_PROTOCOL_VERSION_MAJOR, WIRE_PROTOCOL_VERSION_MINOR,
                        [k \in 1..Len(authenticators) |-> AuthenticatorInfo(authenticators[k])],
                        providers)

(* A builder that passes no provider to the Core provider *)
CoreProviderWithoutProviders(providers, authenticators) ==
    CoreProviderBuilder(WIRE_PROTOCOL_VERSION_MINOR, WIRE_PROTOCOL_VERSION_MAJOR,
                        [k \in 1..Len(authenticators) |-> AuthenticatorInfo(authenticators[k])],
                        <<>>)

(* A builder that describes the authenticators in the order of a map       *)
(* sorted by name                                                           *)
CoreProviderFromMap(providers, authenticators) ==
    CoreProviderBuilder(WIRE_PROTOCOL_VERSION_MINOR, WIRE_PROTOCOL_VERSION_MAJOR,
                        IF \E k \in 1..Len(authenticators) : authenticators[k] = "Direct"
                        THEN <<AuthenticatorInfo("Direct")>> \o
                             [k \in 1..(Len(authenticators) - 1) |-> AuthenticatorInfo("UnixPeerCredentials")]
                        ELSE [k \in 1..Len(authenticators) |-> AuthenticatorInfo(authenticators[k])],
                        providers)

(* build_backend_handlers, the Core provider: the wire protocol version,   *)
(* the info of each authenticator of the slice, each provider of the list  *)
core_provider(providers, authenticators) ==
    CoreProviderBuilder(WIRE_PROTOCOL_VERSION_MINOR, WIRE_PROTOCOL_VERSION_MAJOR,
                        [k \in 1..Len(authenticators) |-> AuthenticatorInfo(authenticators[k])],
                        providers)

(* The methods of the Core provider *)
CoreOperations == {"Ping", "ListProviders", "ListAuthenticators"}

ping(core) ==
    [wire_protocol_version_maj |-> core.wire_protocol_version_maj,
     wire_protocol_version_min |-> core.wire_protocol_version_min]

list_providers(core) == [providers |-> core.provider_info]

list_authenticators(core) == [authenticators |-> core.authenticator_info]

(* The body of a Ping result: the fields 1 (major) and 2 (minor) as        *)
(* varints, a field of value 0 left out                                    *)
VarintField(number, value) == IF value = 0 THEN <<>> ELSE <<8 * number, value>>

ResultPingToBody(result) ==
    VarintField(1, result.wire_protocol_version_maj)
        \o VarintField(2, result.wire_protocol_version_min)

FieldOfBody(body, number) ==
    IF \E k \in 1..(Len(body) - 1) : k % 2 = 1 /\ body[k] = 8 * number
    THEN body[(CHOOSE k \in 1..(Len(body) - 1) : k % 2 = 1 /\ body[k] = 8 * number) + 1]
    ELSE 0

BodyToResultPing(body) ==
    [wire_protocol_version_maj |-> FieldOfBody(body, 1),
     wire_protocol_version_min |-> FieldOfBody(body, 2)]

NoCore == CoreProviderBuilder(0, 0, <<>>, <<>>)

(* The configuration the service is built from *)
CoreInit ==
    /\ StoreInit
    /\ \E configs \in SeqsUpTo(ProviderConfigs, MaxConfigs), authenticators \in AuthenticatorLists :
          conn = [pc |-> "build", configs |-> configs, authenticators |-> authenticators,
                  providers |-> <<>>, backends |-> <<>>, front_end |-> {}, core |-> NoCore,
                  request |-> NoRequest, operation |-> "none", capable |-> "none",
                  result |-> <<>>, response |-> Response_new]

(* build_service over a configuration that gives at least one provider *)
BuildService ==
    /\ conn.pc = "build"
    /\ build_providers(conn.configs) # <<>>
    /\ \E providers \in {build_providers(conn.configs)} :
          conn' = [conn EXCEPT
                !.providers = providers,
                !.backends = build_backend_handlers(
                                 {providers[k] : k \in 1..Len(providers)} \cup {0}),
                !.core = core_provider(providers, conn.authenticators),
                !.front_end = {conn.authenticators[k] : k \in 1..Len(conn.authenticators)},
                !.pc = "serve"]
    /\ UNCHANGED <<manager, key_store, disk, readers, writers, call, obs, expected, prev, crashed>>

(* build_service over a configuration that gives no provider: Err *)
BuildServiceFailed ==
    /\ conn.pc = "build"
    /\ build_providers(conn.configs) = <<>>
    /\ conn' = [conn EXCEPT !.pc = "failed"]
    /\ UNCHANGED <<manager, key_store, disk, readers, writers, call, obs, expected, prev, crashed>>

(* A request without authentication and with an empty body for an          *)
(* operation of the Core provider, through the handler registered for it   *)
ServeCore(operation, version_min) ==
    /\ conn.pc = "serve"
    /\ \E header \in {RequestHeader(WIRE_PROTOCOL_VERSION_MAJOR, version_min, 0, 7, Protobuf,
                                    Protobuf, "NoAuth", OpcodeOf("Ping"))} :
       \E capable \in {is_capable(conn.backends[0], header)} :
       \E result \in {CASE operation = "Ping" -> ping(conn.core)
                        [] operation = "ListProviders" -> list_providers(conn.core)
                        [] operation = "ListAuthenticators" -> list_authenticators(conn.core)} :
          conn' = [conn EXCEPT
                !.request = header, !.operation = operation, !.capable = capable,
                !.result = IF capable = "Ok" THEN result ELSE <<>>,
                !.response =
                    IF capable # "Ok" THEN from_request_header(header, capable)
                    ELSE [from_request_header(header, "Success") EXCEPT
                             !.body = IF operation = "Ping" THEN ResultPingToBody(result)
                                      ELSE <<result>>],
                !.pc = "done"]
    /\ UNCHANGED <<manager, key_store, disk, readers, writers, call, obs, expected, prev, crashed>>

CoreNext ==
    \/ BuildService
    \/ BuildServiceFailed
    \/ \E operation \in CoreOperations, version_min \in {0, 1} : ServeCore(operation, version_min)

SpecCore == CoreInit /\ [][CoreNext]_vars

----------------------------------------------------------------------------
(* ProtobufConverter *)

MaxBodyLen == 3

ConvertOk(v) == [ok |-> TRUE, status |-> "Success", v |-> v]

ConvertErr(status) == [ok |-> FALSE, status |-> status, v |-> <<>>]

(* ConvertOperation and ConvertResult: the variant and the native value *)
ConvertOperation(variant, value) == [variant |-> variant, value |-> value]

ConvertResult(variant, value) == [variant |-> variant, value |-> value]

(* The opcodes the converter matches on *)
ConvertOpcodes == {OpcodeOf("Ping"), OpcodeOf("CreateKey")}

(* The native values the converter is given: OpPing and ResultCreateKey    *)
(* have no field, OpCreateKey has the name and the lifetime of the key,    *)
(* ResultPing the two versions                                             *)
NativeOperations ==
    {ConvertOperation("Ping", <<>>)}
    \cup {ConvertOperation("CreateKey", [key_name |-> name, key_lifetime |-> lifetime]) :
            name \in {<<>>, <<107>>, <<107, 50>>}, lifetime \in {0, 1}}

NativeResults ==
    {ConvertResult("Ping", [wire_protocol_version_maj |-> maj, wire_protocol_version_min |-> min]) :
        maj \in {0, 1}, min \in {0, 1}}
    \cup {ConvertResult("CreateKey", <<>>)}

(* Message::encode of a length-delimited field: left out when empty *)
BytesField(number, bytes) ==
    IF bytes = <<>> THEN <<>> ELSE <<8 * number + 2, Len(bytes)>> \o bytes

ProtoField(number, wire, varint, bytes) ==
    [number |-> number, wire |-> wire, varint |-> varint, bytes |-> bytes]

ProtoErr == [ok |-> FALSE, fields |-> <<>>]

(* decode_varint: seven bits a byte, the lowest first, up to the first     *)
(* byte below 128; an error when the bytes end before it                   *)
RECURSIVE DecodeVarint(_)
DecodeVarint(bytes) ==
    IF bytes = <<>> THEN [ok |-> FALSE, value |-> 0, size |-> 0]
    ELSE IF bytes[1] < 128 THEN [ok |-> TRUE, value |-> bytes[1], size |-> 1]
    ELSE LET rest == DecodeVarint(Tail(bytes))
         IN  [ok |-> rest.ok, value |-> (bytes[1] - 128) + 128 * rest.value,
              size |-> rest.size + 1]

(* One field of a body: the tag (field number and wire type), then a       *)
(* varint (wire type 0) or a length and that many bytes (wire type 2); an  *)
(* error on field number 0, on another wire type and on a body that ends   *)
(* inside the field                                                         *)
ProtoMergeField(bytes) ==
    LET tag == DecodeVarint(bytes)
        after == SubSeq(bytes, tag.size + 1, Len(bytes))
        number == tag.value \div 8
        wire == tag.value % 8
        varint == DecodeVarint(after)
        content == SubSeq(after, varint.size + 1, Len(after))
    IN  IF ~tag.ok \/ number = 0 \/ wire \notin {0, 2} \/ ~varint.ok
        THEN [ok |-> FALSE, field |-> ProtoField(0, 0, 0, <<>>), size |-> 0]
        ELSE IF wire = 0
        THEN [ok |-> TRUE, field |-> ProtoField(number, 0, varint.value, <<>>),
              size |-> tag.size + varint.size]
        ELSE IF Len(content) < varint.value
        THEN [ok |-> FALSE, field |-> ProtoField(0, 0, 0, <<>>), size |-> 0]
        ELSE [ok |-> TRUE,
              field |-> ProtoField(number, 2, 0, SubSeq(content, 1, varint.value)),
              size |-> tag.size + varint.size + varint.value]

(* Message::merge: the fields of a body, one after the other *)
RECURSIVE ProtoMerge(_)
ProtoMerge(bytes) ==
    IF bytes = <<>> THEN [ok |-> TRUE, fields |-> <<>>]
    ELSE LET first == ProtoMergeField(bytes)
         IN  IF ~first.ok THEN ProtoErr
             ELSE LET rest == ProtoMerge(SubSeq(bytes, first.size + 1, Len(bytes)))
                  IN  IF rest.ok THEN [ok |-> TRUE, fields |-> <<first.field>> \o rest.fields]
                      ELSE ProtoErr

(* The fields of a message are of the wire type of their declaration;      *)
(* fields of other numbers are skipped                                      *)
WireTypesMatch(fields, declared) ==
    \A k \in 1..Len(fields) :
        fields[k].number \in DOMAIN declared => fields[k].wire = declared[fields[k].number]

(* The last value merged for a field, its default when there is none *)
LastField(fields, number, default) ==
    LET ks == {k \in 1..Len(fields) : fields[k].number = number}
    IN  IF ks = {} THEN default
        ELSE fields[CHOOSE k \in ks : \A j \in ks : j <= k]

(* OpPingProto and ResultCreateKeyProto declare no field *)
NoFields == [n \in {} |-> 0]

(* ResultPingProto: both versions are varints *)
ResultPingFields == [n \in {1, 2} |-> 0]

(* OpCreateKeyProto: key_name is a string, the lifetime a varint *)
OpCreateKeyFields == [n \in {1, 2} |-> IF n = 1 THEN 2 ELSE 0]

(* wire_to_native! for OpCreateKeyProto: a key name that is not UTF-8 is   *)
(* an error of merge                                                        *)
BodyToOpCreateKey(body) ==
    LET proto == ProtoMerge(body)
    IN  IF ~proto.ok \/ ~WireTypesMatch(proto.fields, OpCreateKeyFields)
        THEN ConvertErr("DeserializingBodyFailed")
        ELSE LET name == LastField(proto.fields, 1, ProtoField(1, 2, 0, <<>>)).bytes
                 lifetime == LastField(proto.fields, 2, ProtoField(2, 0, 0, <<>>)).varint
             IN  IF ~Utf8Valid(name) THEN ConvertErr("DeserializingBodyFailed")
                 ELSE ConvertOk([key_name |-> name, key_lifetime |-> lifetime])

(* wire_to_native! for ResultPingProto *)
BodyToResultPingProto(body) ==
    LET proto == ProtoMerge(body)
    IN  IF ~proto.ok \/ ~WireTypesMatch(proto.fields, ResultPingFields)
        THEN ConvertErr("DeserializingBodyFailed")
        ELSE ConvertOk([wire_protocol_version_maj |->
                            LastField(proto.fields, 1, ProtoField(1, 0, 0, <<>>)).varint,
                        wire_protocol_version_min |->
                            LastField(proto.fields, 2, ProtoField(2, 0, 0, <<>>)).varint])

(* wire_to_native! for a message without fields *)
BodyToEmpty(body) ==
    IF ~ProtoMerge(body).ok THEN ConvertErr("DeserializingBodyFailed") ELSE ConvertOk(<<>>)

(* native_to_wire! for OpCreateKeyProto *)
OpCreateKeyToBody(operation) ==
    BytesField(1, operation.key_name) \o VarintField(2, operation.key_lifetime)

(* A converter that reads every request body as a Ping *)
BodyToOperationOfPing(body, opcode) ==
    IF BodyToEmpty(body).ok THEN ConvertOk(ConvertOperation("Ping", BodyToEmpty(body).v))
    ELSE BodyToEmpty(body)

(* ProtobufConverter::body_to_operation *)
body_to_operation(body, opcode) ==
    IF opcode = OpcodeOf("Ping")
    THEN IF BodyToEmpty(body).ok
         THEN ConvertOk(ConvertOperation("Ping", BodyToEmpty(body).v))
         ELSE BodyToEmpty(body)
    ELSE IF BodyToOpCreateKey(body).ok
         THEN ConvertOk(ConvertOperation("CreateKey", BodyToOpCreateKey(body).v))
         ELSE BodyToOpCreateKey(body)

(* ProtobufConverter::body_from_operation *)
body_from_operation(operation) ==
    IF operation.variant = "Ping" THEN ConvertOk(<<>>)
    ELSE ConvertOk(OpCreateKeyToBody(operation.value))

(* ProtobufConverter::body_to_result *)
body_to_result(body, opcode) ==
    IF opcode = OpcodeOf("Ping")
    THEN IF BodyToResultPingProto(body).ok
         THEN ConvertOk(ConvertResult("Ping", BodyToResultPingProto(body).v))
         ELSE BodyToResultPingProto(body)
    ELSE IF BodyToEmpty(body).ok
         THEN ConvertOk(ConvertResult("CreateKey", BodyToEmpty(body).v))
         ELSE BodyToEmpty(body)

(* ProtobufConverter::body_from_result *)
body_from_result(result) ==
    IF result.variant = "Ping" THEN ConvertOk(ResultPingToBody(result.value))
    ELSE ConvertOk(<<>>)

(* The bytes of the bodies a peer may send: tags of fields 1 and 2 with    *)
(* wire types 0 and 2, a tag with wire type 7, field number 0, a length,   *)
(* a letter and a byte that is not UTF-8                                   *)
BodyBytes == {0, 1, 8, 10, 15, 16, 107, 255}

Bodies == SeqsUpTo(BodyBytes, MaxBodyLen)

NoNative == [variant |-> "none", value |-> <<>>]

NoConverted == [ok |-> FALSE, status |-> "none", v |-> <<>>]

(* A native value given to the converter, or a body received with an       *)
(* opcode                                                                   *)
ConvertInit ==
    /\ StoreInit
    /\ \/ \E native \in NativeOperations :
             conn = [pc |-> "native", side |-> "operation", opcode |-> OpcodeOf(native.variant),
                     native |-> native, body |-> <<>>, converted |-> NoConverted]
       \/ \E native \in NativeResults :
             conn = [pc |-> "native", side |-> "result", opcode |-> OpcodeOf(native.variant),
                     native |-> native, body |-> <<>>, converted |-> NoConverted]
       \/ \E body \in Bodies, opcode \in ConvertOpcodes, side \in {"operation", "result"} :
             conn = [pc |-> "body", side |-> side, opcode |-> opcode,
                     native |-> NoNative, body |-> body, converted |-> NoConverted]

BodyFromOperation ==
    /\ conn.pc = "native"
    /\ conn.side = "operation"
    /\ body_from_operation(conn.native).ok
    /\ conn' = [conn EXCEPT !.body = body_from_operation(conn.native).v, !.pc = "body"]
    /\ UNCHANGED <<manager, key_store, disk, readers, writers, call, obs, expected, prev, crashed>>

BodyFromResult ==
    /\ conn.pc = "native"
    /\ conn.side = "result"
    /\ body_from_result(conn.native).ok
    /\ conn' = [conn EXCEPT !.body = body_from_result(conn.native).v, !.pc = "body"]
    /\ UNCHANGED <<manager, key_store, disk, readers, writers, call, obs, expected, prev, crashed>>

BodyToOperation ==
    /\ conn.pc = "body"
    /\ conn.side = "operation"
    /\ conn' = [conn EXCEPT !.converted = body_to_operation(conn.body, conn.opcode),
                            !.pc = "converted"]
    /\ UNCHANGED <<manager, key_store, disk, readers, writers, call, obs, expected, prev, crashed>>

BodyToResult ==
    /\ conn.pc = "body"
    /\ conn.side = "result"
    /\ conn' = [conn EXCEPT !.converted = body_to_result(conn.body, conn.opcode),
                            !.pc = "converted"]
    /\ UNCHANGED <<manager, key_store, disk, readers, writers, call, obs, expected, prev, crashed>>

ConvertNext ==
    \/ BodyFromOperation
    \/ BodyFromResult
    \/ BodyToOperation
    \/ BodyToResult

SpecConvert == ConvertInit /\ [][ConvertNext]_vars

----------------------------------------------------------------------------
(* The key data of a provider *)

(* The key data an application imports and a provider generates *)
KeyData == {<<48>>, <<48, 129>>}

NoSlots == [id \in {} |-> <<>>]

(* The key ids a provider gives a new key: those of no key of the store *)
FreshKeyIds(ks) == KeyIds \ {ks[t] : t \in DOMAIN ks}

(* import_key, create_key, export_public_key and destroy_key of a provider *)
(* that keeps the data of a key in the slot of its key id: a new key is    *)
(* stored with the data given (import_key) or generated (create_key), the  *)
(* export answers the data of the slot the triple is mapped to, the        *)
(* destruction empties it                                                   *)
Provide(method, ks, d, slots, t, key_id, key_data, generated, fault) ==
    IF method \in {"import_key", "create_key"}
    THEN LET r == create_key(ks, d, t, key_id, fault)
             data == IF method = "import_key" THEN key_data ELSE generated
         IN  [status |-> r.status, store |-> r.store, disk |-> r.disk,
              slots |-> IF r.status = "Success"
                        THEN [id \in DOMAIN slots \cup {key_id} |->
                                 IF id = key_id THEN data ELSE slots[id]]
                        ELSE slots,
              key_data |-> <<>>]
    ELSE IF method = "export_public_key"
    THEN [status |-> IF export_public_key(ks, t) # "Success" THEN export_public_key(ks, t)
                     ELSE IF ks[t] \in DOMAIN slots THEN "Success"
                     ELSE "PsaErrorGenericError",
          store |-> ks, disk |-> d, slots |-> slots,
          key_data |-> IF exists(ks, t) /\ ks[t] \in DOMAIN slots THEN slots[ks[t]] ELSE <<>>]
    ELSE LET r == destroy_key(ks, d, t, fault)
         IN  [status |-> r.status, store |-> r.store, disk |-> r.disk,
              slots |-> IF r.status = "Success"
                        THEN [id \in DOMAIN slots \ {ks[t]} |-> slots[id]]
                        ELSE slots,
              key_data |-> <<>>]

NoKeyResult == [operation |-> "none", t |-> NoTriple, status |-> "", key_data |-> <<>>]

(* A provider without keys over a new store; imported is the data of the   *)
(* keys imported with success and not asked to be destroyed since          *)
KeyDataInit ==
    /\ StoreInit
    /\ conn = [slots |-> NoSlots, imported |-> [t \in {} |-> <<>>], result |-> NoKeyResult]

(* execute_request for an operation on a key: the provider method of the   *)
(* operation, on the store and on the key data                             *)
ExecuteKeyOperation(operation, t, key_id, key_data, generated, fault) ==
    /\ Up
    /\ ProvideMethod(operation) \in {"import_key", "create_key"} =>
          key_id \in FreshKeyIds(key_store)
    /\ \E r \in {Provide(ProvideMethod(operation), key_store, disk, conn.slots, t, key_id,
                         key_data, generated, fault)} :
          /\ key_store' = r.store
          /\ disk' = r.disk
          /\ conn' = [slots |-> r.slots,
                      imported |->
                          IF operation = "ImportKey" /\ r.status = "Success"
                          THEN [u \in DOMAIN conn.imported \cup {t} |->
                                   IF u = t THEN key_data ELSE conn.imported[u]]
                          ELSE IF operation = "DestroyKey"
                          THEN [u \in DOMAIN conn.imported \ {t} |-> conn.imported[u]]
                          ELSE conn.imported,
                      result |-> [operation |-> operation, t |-> t, status |-> r.status,
                                  key_data |-> r.key_data]]
    /\ UNCHANGED <<manager, readers, writers, call, obs, expected, prev, crashed>>

KeyDataNext ==
    \/ New
    \/ \E operation \in KeyOperations, t \in SharedTriples, key_id \in KeyIds,
          key_data \in KeyData, generated \in KeyData,
          fault \in {NoFault, [step |-> 2, n |-> 0], [step |-> 3, n |-> 0]} :
             ExecuteKeyOperation(operation, t, key_id, key_data, generated, fault)

SpecKeyData == KeyDataInit /\ [][KeyDataNext]_vars

----------------------------------------------------------------------------
(* Properties of the key store *)

(* C1: the store follows its contract.  get(t) is the key id of the most   *)
(* recent successful insert of t that no successful remove of t followed   *)
(* (counted from the map the store was constructed with) and None when     *)
(* there is none; a successful insert or remove returns what t held        *)
(* immediately before the call.                                            *)
C1_StoreContract ==
    Up =>
        /\ \A t \in InputTriples : get(key_store, t) = HistGet(expected.map, t)
        /\ DOMAIN key_store = DOMAIN expected.map
        /\ obs.op = "get" => obs.get = HistGet(expected.map, obs.t)
        /\ (call.op \in {"insert", "remove"} /\ call.status = "Ok") => call.ret = call.hist

(* An insert over a triple that held another key id returned that key id *)
C1_Witness ==
    /\ Up
    /\ call.op = "insert"
    /\ call.status = "Ok"
    /\ call.ret.some
    /\ call.ret.v # call.key_id
    /\ get(key_store, call.t) = Some(call.key_id)

(* C2: persistence across restart.  A manager constructed over the         *)
(* directory of an instance whose insert and remove calls all succeeded    *)
(* holds exactly the map that instance held.                               *)
C2_RestartSameMap == (Up /\ prev.have) => key_store = prev.store

(* C3: a failed disk step leaves the map alone.  When insert or remove     *)
(* returns Err (the provider then answers KeyInfoManagerError) the map is  *)
(* what it was before the call.                                            *)
C3_FailedDiskStepKeepsMap ==
    (call.op # "none" /\ call.status \in {"Err", "KeyInfoManagerError"}) =>
        key_store = call.before

(* An insert over a stored triple returned Err, and the triple is still    *)
(* in the map                                                               *)
C3_Witness ==
    /\ call.op = "insert"
    /\ call.status = "Err"
    /\ exists(call.before, call.t)
    /\ exists(key_store, call.t)

(* C4: crash consistency of insert.  After a crash inside insert(t, id)    *)
(* the file of t is the complete previous record, absent, or the complete  *)
(* new record: the restarted store holds for t the previous key id,        *)
(* nothing, or id, never an empty or partly written one.                   *)
C4_CrashLeavesWholeRecord ==
    (crashed.valid /\ Up) =>
        get(key_store, crashed.t) \in {crashed.old, None, Some(crashed.key_id)}

(* C5: a reader never sees the map ahead of the directory.  While a thread *)
(* reads, every mapping get, exists and get_all can see has its file       *)
(* holding its key id, and every triple removed and now absent has no      *)
(* file.                                                                    *)
C5_ReaderNeverAheadOfDisk ==
    (readers # {} /\ obs.op # "none") =>
        /\ \A t \in DOMAIN key_store :
              FileAt(disk, KeyNameFilePath(t)) = Some(key_store[t])
        /\ \A t \in expected.removed :
              ~exists(key_store, t) => ~PathExists(disk, KeyNameFilePath(t))

(* C6: readers-writer discipline.  At most one thread is inside insert or  *)
(* remove, and then no thread is inside get, get_all or exists.            *)
C6_ReadersWriter ==
    /\ Cardinality(writers) <= 1
    /\ writers # {} => readers = {}

(* Two threads are inside read-only operations at the same time *)
C6_Witness ==
    /\ Cardinality(readers) >= 2
    /\ obs.op # "none"

(* C7: startup recovery skips bad entries.  Construction over a directory  *)
(* succeeds whatever the names in it, and loads every mapping file whose   *)
(* path decodes into a key triple.                                         *)
C7_RecoverySkipsBadEntries ==
    manager # "none" =>
        /\ manager = "Ok"
        /\ \A p \in LoadedFiles(disk) :
              get(key_store, DecodeMappingPath(p).v) = Some(disk[p].data)

(* C8: per-application isolation.  A call completed for one application    *)
(* changes neither get, exists and export of a triple of another           *)
(* application nor its mapping file.                                       *)
C8_ApplicationIsolation ==
    [][(call'.op # "none" /\ call' # call) =>
          \A t \in SharedTriples :
              t.app_name # call'.t.app_name =>
                  /\ get(key_store', t) = get(key_store, t)
                  /\ exists(key_store', t) = exists(key_store, t)
                  /\ export_public_key(key_store', t) = export_public_key(key_store, t)
                  /\ FileAt(disk', KeyNameFilePath(t)) = FileAt(disk, KeyNameFilePath(t))]_vars

(* Application "a" holds key "k" and the export of "k" by application "b"  *)
(* was answered KeyDoesNotExist                                             *)
C8_Witness ==
    /\ exists(key_store, KeyTriple(<<97>>, 1, <<107>>))
    /\ obs.op = "ExportPublicKey"
    /\ obs.t = KeyTriple(<<98>>, 1, <<107>>)
    /\ obs.status = "KeyDoesNotExist"

(* C9: key lifecycle.  The export of a key succeeds exactly when the key   *)
(* was created or imported (in this run, or is held by the store since its *)
(* construction) and not destroyed since, and is answered KeyDoesNotExist  *)
(* otherwise.                                                               *)
C9_KeyLifecycle ==
    obs.op = "ExportPublicKey" =>
        /\ obs.status = "Success" <=> obs.t \in DOMAIN expected.map
        /\ obs.status # "Success" => obs.status = "KeyDoesNotExist"

(* The export of a destroyed key was answered KeyDoesNotExist *)
C9_Witness ==
    /\ obs.op = "ExportPublicKey"
    /\ obs.t \in expected.removed
    /\ obs.status = "KeyDoesNotExist"

----------------------------------------------------------------------------
(* Properties of the request pipeline *)

(* C10: one request, one response.  An invocation of handle_request reads  *)
(* at most one request, dispatches only a decoded request and at most      *)
(* once, and when it has returned it has made exactly one attempt to write *)
(* a response, on every path and whether or not the write succeeded.       *)
C10_OneRequestOneResponse ==
    \A c \in DOMAIN conn :
        /\ conn[c].reads <= 1
        /\ conn[c].dispatches <= 1
        /\ conn[c].writes <= 1
        /\ conn[c].dispatches = 1 =>
              (conn[c].read = "Ok" /\ conn[c].path \in {"dispatch", "dispatch_no_auth"})
        /\ conn[c].pc = "returned" =>
              /\ conn[c].reads = 1
              /\ conn[c].writes = 1
              /\ conn[c].path \in {"read_failed", "authenticator_not_registered",
                                   "authentication_failed", "dispatch", "dispatch_no_auth"}
              /\ conn[c].dispatches =
                    IF conn[c].path \in {"dispatch", "dispatch_no_auth"} THEN 1 ELSE 0

(* handle_request returned after the write of the response to a request    *)
(* it could not decode had failed                                          *)
C10_Witness ==
    \E c \in DOMAIN conn :
        /\ conn[c].pc = "returned"
        /\ conn[c].path = "read_failed"
        /\ ~conn[c].write_ok
        /\ conn[c].writes = 1
        /\ conn[c].dispatches = 0

(* C11: a request that cannot be decoded is answered by status alone.  The *)
(* response has version, provider, session, content type, opcode and body  *)
(* length zero, an empty body and the status of the decode failure, and    *)
(* no authenticator, dispatcher, handler, converter or provider was        *)
(* called.                                                                  *)
C11_DecodeFailureStatusOnly ==
    \A c \in DOMAIN conn :
        (conn[c].read \notin {"none", "Ok"}) =>
            /\ conn[c].response.header.version_maj = 0
            /\ conn[c].response.header.version_min = 0
            /\ conn[c].response.header.provider = 0
            /\ conn[c].response.header.session = 0
            /\ conn[c].response.header.content_type = 0
            /\ conn[c].response.header.opcode = 0
            /\ conn[c].response.header.body_len = 0
            /\ conn[c].response.body = <<>>
            /\ conn[c].response.header.status = conn[c].read
            /\ conn[c].consulted = "none"
            /\ conn[c].dispatches = 0
            /\ ~conn[c].handler.some
            /\ conn[c].calls = <<>>

(* The response to a request with an invalid header was written *)
C11_Witness ==
    \E c \in DOMAIN conn :
        /\ conn[c].pc = "returned"
        /\ conn[c].read = "InvalidHeader"
        /\ conn[c].response.header.status = "InvalidHeader"
        /\ conn[c].write_ok

(* C12: authentication failures are answered by status alone.  A decoded   *)
(* request whose auth_type is not NoAuth and has no registered             *)
(* authenticator is answered AuthenticatorNotRegistered, one whose         *)
(* authenticator rejects the authentication bytes is answered              *)
(* AuthenticationError; both responses have an empty body and the request  *)
(* is never dispatched.                                                     *)
C12_AuthenticationFailures ==
    \A c \in DOMAIN conn :
        (conn[c].pc \in {"write", "returned"} /\ conn[c].read = "Ok"
            /\ conn[c].request.auth_type # "NoAuth"
            /\ (conn[c].request.auth_type \in conn[c].authenticators
                    => ~authenticate(conn[c].auth).ok)) =>
            /\ conn[c].response.header.status =
                  IF conn[c].request.auth_type \in conn[c].authenticators
                  THEN "AuthenticationError" ELSE "AuthenticatorNotRegistered"
            /\ conn[c].response.body = <<>>
            /\ conn[c].response.header.body_len = 0
            /\ conn[c].dispatches = 0
            /\ ~conn[c].handler.some
            /\ conn[c].calls = <<>>

(* A Direct request with empty authentication bytes was answered           *)
(* AuthenticationError and not dispatched                                  *)
C12_Witness ==
    \E c \in DOMAIN conn :
        /\ conn[c].pc = "returned"
        /\ conn[c].request.auth_type = "Direct"
        /\ conn[c].auth = <<>>
        /\ conn[c].response.header.status = "AuthenticationError"
        /\ conn[c].dispatches = 0

(* C13: which identity a request is dispatched with.  A NoAuth request is  *)
(* dispatched with the identity None and no authenticator is consulted,    *)
(* whatever its authentication bytes and whether or not an authenticator   *)
(* is registered under NoAuth; a request of another authentication type is *)
(* dispatched only with the ApplicationName returned by the authenticator  *)
(* registered for exactly that type.                                       *)
C13_DispatchIdentity ==
    \A c \in DOMAIN conn :
        (conn[c].pc \in {"write", "returned"} /\ conn[c].read = "Ok") =>
            /\ conn[c].request.auth_type = "NoAuth" =>
                  /\ conn[c].dispatches = 1
                  /\ conn[c].identity = None
                  /\ conn[c].consulted = "none"
            /\ (conn[c].request.auth_type # "NoAuth" /\ conn[c].dispatches = 1) =>
                  /\ conn[c].request.auth_type \in conn[c].authenticators
                  /\ conn[c].consulted = conn[c].request.auth_type
                  /\ authenticate(conn[c].auth).ok
                  /\ conn[c].identity = Some(authenticate(conn[c].auth).app_name)

(* A NoAuth request that names an application in its authentication bytes  *)
(* was dispatched without identity by a service that has an authenticator  *)
(* registered under NoAuth                                                  *)
C13_Witness ==
    \E c \in DOMAIN conn :
        /\ conn[c].pc = "returned"
        /\ conn[c].request.auth_type = "NoAuth"
        /\ "NoAuth" \in conn[c].authenticators
        /\ conn[c].auth = <<97>>
        /\ conn[c].dispatches = 1
        /\ conn[c].identity = None

C16_FirstFailingCheck ==
    conn.pc \in {"checked", "done"} =>
        LET failed == <<conn.request.provider # conn.backend.provider_id,
                        conn.request.content_type # conn.backend.content_type,
                        conn.request.accept_type # conn.backend.accept_type,
                        \/ conn.request.version_maj > conn.backend.version_maj
                        \/ /\ conn.request.version_maj = conn.backend.version_maj
                           /\ conn.request.version_min > conn.backend.version_min>>
            statuses == <<"WrongProviderID", "ContentTypeNotSupported",
                          "AcceptTypeNotSupported", "VersionTooBig">>
        IN  /\ (\A i \in 1..4 : ~failed[i]) => conn.capable = "Ok"
            /\ \A i \in 1..4 :
                  (failed[i] /\ \A j \in 1..(i - 1) : ~failed[j]) =>
                      conn.capable = statuses[i]
            /\ conn.capable # "Ok" => conn.calls = <<>>

(* A request that fails all four checks was answered WrongProviderID *)
C16_Witness ==
    /\ conn.pc = "done"
    /\ conn.request.provider # conn.backend.provider_id
    /\ conn.request.content_type # conn.backend.content_type
    /\ conn.request.accept_type # conn.backend.accept_type
    /\ conn.request.version_maj > conn.backend.version_maj
    /\ conn.capable = "WrongProviderID"
    /\ conn.calls = <<>>

(* C17: which versions a handler accepts.  A request that passes the other *)
(* checks is refused with VersionTooBig when (version_maj, version_min) of *)
(* its header is greater than the pair of the handler in the order of      *)
(* pairs, and accepted otherwise: a handler of (1,0) refuses (1,1).        *)
C17_VersionOrder ==
    (/\ conn.pc \in {"checked", "done"}
     /\ conn.request.provider = conn.backend.provider_id
     /\ conn.request.content_type = conn.backend.content_type
     /\ conn.request.accept_type = conn.backend.accept_type) =>
        /\ conn.capable = "VersionTooBig" <=>
              conn.request.version_maj * 256 + conn.request.version_min
                  > conn.backend.version_maj * 256 + conn.backend.version_min
        /\ conn.capable \in {"VersionTooBig", "Ok"}

(* A handler of version (1,0) refused a request of version (1,1) that it   *)
(* was otherwise capable of                                                 *)
C17_Witness ==
    /\ conn.pc = "done"
    /\ conn.backend.version_maj = 1 /\ conn.backend.version_min = 0
    /\ conn.request.version_maj = 1 /\ conn.request.version_min = 1
    /\ conn.request.provider = conn.backend.provider_id
    /\ conn.request.content_type = conn.backend.content_type
    /\ conn.request.accept_type = conn.backend.accept_type
    /\ conn.capable = "VersionTooBig"

(* C18: execute_request stops at the first failure.  When the body does    *)
(* not decode the provider is not called; when the provider fails the      *)
(* result converter is not called; when the result does not encode the     *)
(* response carries the status of that failure.  The response is Success   *)
(* with the encoded result as body, or the status of the failure with an   *)
(* empty body.                                                              *)
C18_ExecuteShortCircuits ==
    (conn.pc = "done" /\ conn.capable = "Ok") =>
        LET method == ProvideMethod(OperationOf(conn.request.opcode))
            called == {conn.calls[i] : i \in DOMAIN conn.calls}
            status == conn.response.header.status
        IN  /\ conn.outcome.decode # "Ok" =>
                  /\ status = conn.outcome.decode
                  /\ method \notin called
                  /\ "result_to_body" \notin called
            /\ (conn.outcome.decode = "Ok" /\ conn.outcome.provider # "Ok") =>
                  /\ status = conn.outcome.provider
                  /\ method \in called
                  /\ "result_to_body" \notin called
            /\ (conn.outcome.decode = "Ok" /\ conn.outcome.provider = "Ok") =>
                  /\ called = {"body_to_operation", method, "result_to_body"}
                  /\ status = IF conn.outcome.encode = "Ok" THEN "Success"
                              ELSE conn.outcome.encode
            /\ status = "Success" =>
                  conn.response.body = EncodedResult(OperationOf(conn.request.opcode))
            /\ status # "Success" => conn.response.body = <<>>

(* The provider created the key and the result did not encode: the         *)
(* response is SerializingBodyFailed with an empty body                    *)
C18_Witness ==
    /\ conn.pc = "done"
    /\ conn.capable = "Ok"
    /\ conn.outcome.provider = "Ok"
    /\ conn.outcome.encode = "SerializingBodyFailed"
    /\ conn.calls = <<"body_to_operation", "create_key", "result_to_body">>
    /\ conn.response.header.status = "SerializingBodyFailed"
    /\ conn.response.body = <<>>

(* C19: the response echoes the header of its request.  Whenever the       *)
(* header of the request was decoded, the response written to the stream   *)
(* carries the opcode, session, version and provider of the request read   *)
(* from that stream, on success and on every error path, so that no        *)
(* response of connections served at the same time carries the session or  *)
(* opcode of the request of another connection.                            *)
C19_ResponseEchoesRequest ==
    \A c \in DOMAIN conn :
        (conn[c].pc \in {"write", "returned"} /\ conn[c].header_decoded) =>
            /\ conn[c].response.header.opcode = conn[c].request.opcode
            /\ conn[c].response.header.session = conn[c].request.session
            /\ conn[c].response.header.version_maj = conn[c].request.version_maj
            /\ conn[c].response.header.version_min = conn[c].request.version_min
            /\ conn[c].response.header.provider = conn[c].request.provider
            /\ \A d \in DOMAIN conn \ {c} :
                  /\ (conn[d].header_decoded
                        /\ conn[d].request.session # conn[c].request.session)
                        => conn[c].response.header.session # conn[d].request.session
                  /\ (conn[d].header_decoded
                        /\ conn[d].request.opcode # conn[c].request.opcode)
                        => conn[c].response.header.opcode # conn[d].request.opcode

(* C20 as stated: a frame whose first four bytes are not the magic number, *)
(* or whose hdr_size is not the size of the header, is rejected with       *)
(* InvalidHeader, and no byte after magic and hdr_size is consumed.        *)
C20_RejectedWithInvalidHeader ==
    (/\ conn.pc = "done"
     /\ Len(conn.stream) >= 6
     /\ \/ SubSeq(conn.stream, 1, 4) # <<16, 167, 192, 94>>
        \/ SubSeq(conn.stream, 5, 6) # <<20, 0>>) =>
        /\ ~conn.result.ok
        /\ conn.result.error = "InvalidHeader"
        /\ conn.result.consumed = 6

(* C20, amended: magic and hdr_size are checked before anything further is *)
(* read.  A frame whose first four bytes are not 0x5EC0A710 in             *)
(* little-endian order, or whose next two bytes are not the header size    *)
(* 20, is rejected with an error of kind InvalidData once these six bytes  *)
(* are read, and none of the bytes after them is consumed.                 *)
C20_MagicAndSizeCheckedFirst ==
    (/\ conn.pc = "done"
     /\ Len(conn.stream) >= 6
     /\ \/ SubSeq(conn.stream, 1, 4) # <<16, 167, 192, 94>>
        \/ SubSeq(conn.stream, 5, 6) # <<20, 0>>) =>
        /\ ~conn.result.ok
        /\ conn.result.error = "InvalidData"
        /\ conn.result.consumed = 6
        /\ conn.result.body = <<>>

(* A complete frame with a wrong magic number was rejected with            *)
(* InvalidData after six of its twenty-eight bytes                         *)
C20_Witness ==
    /\ conn.pc = "done"
    /\ Len(conn.stream) = 28
    /\ SubSeq(conn.stream, 1, 4) = <<17, 167, 192, 94>>
    /\ SubSeq(conn.stream, 5, 6) = <<20, 0>>
    /\ conn.result.error = "InvalidData"
    /\ conn.result.consumed = 6

(* C21: wire round trip.  Reading the bytes write_to_stream produced for a *)
(* response whose body_len is the length of its body yields that response, *)
(* every field of the header and the body; the bytes are magic, hdr_size,  *)
(* version_maj, version_min, provider, session, content_type, body_len,    *)
(* opcode, status, each little-endian, and then the body.                  *)
C21_WireRoundTrip ==
    (conn.pc = "done" /\ conn.response.header.body_len = Len(conn.response.body)) =>
        /\ conn.result.ok
        /\ conn.result.header = conn.response.header
        /\ conn.result.body = conn.response.body
        /\ conn.result.consumed = Len(conn.stream)
        /\ Len(conn.stream) = 26 + Len(conn.response.body)
        /\ SubSeq(conn.stream, 1, 6) = <<16, 167, 192, 94, 20, 0>>
        /\ conn.stream[7] = conn.response.header.version_maj
        /\ conn.stream[8] = conn.response.header.version_min
        /\ conn.stream[9] = conn.response.header.provider
        /\ conn.stream[10] = conn.response.header.session % 256
        /\ conn.stream[11] = (conn.response.header.session \div 256) % 256
        /\ conn.stream[12] = (conn.response.header.session \div 65536) % 256
        /\ \A i \in 13..17 : conn.stream[i] = 0
        /\ conn.stream[18] = conn.response.header.content_type
        /\ conn.stream[19] = conn.response.header.body_len
        /\ \A i \in 20..22 : conn.stream[i] = 0
        /\ conn.stream[23] = conn.response.header.opcode % 256
        /\ conn.stream[24] = conn.response.header.opcode \div 256
        /\ conn.stream[25] = conn.response.header.status % 256
        /\ conn.stream[26] = conn.response.header.status \div 256
        /\ SubSeq(conn.stream, 27, Len(conn.stream)) = conn.response.body

(* The response of the unit test, with a session of three bytes, was       *)
(* written as the bytes of the unit test and read back                     *)
C21_Witness ==
    /\ conn.pc = "done"
    /\ conn.stream = <<16, 167, 192, 94, 20, 0, 222, 240, 0, 17, 34, 51, 0, 0, 0, 0, 0,
                       153, 3, 0, 0, 0, 204, 187, 238, 221, 112, 128, 144>>
    /\ conn.result.ok
    /\ conn.result.header.session = 3351057
    /\ conn.result.header.opcode = 48076
    /\ conn.result.body = <<112, 128, 144>>

C23_IdCounterNeverReuses ==
    conn.pc = "running" =>
        /\ \A j, k \in 1..Len(conn.handed) : j < k => conn.handed[j] < conn.handed[k]
        /\ \A k \in 1..Len(conn.handed) : \A l \in conn.loaded : conn.handed[k] > l
        /\ \A k \in 1..Len(conn.handed) : conn.id_counter >= conn.handed[k]
        /\ \A l \in conn.loaded : conn.id_counter >= l
        /\ \A i \in Creators :
              conn.creator[i].pc = "generate" =>
                  /\ conn.creator[i].new_key_id <= PSA_KEY_ID_USER_MAX
                  /\ \E k \in 1..Len(conn.handed) : conn.handed[k] = conn.creator[i].new_key_id
                  /\ \A j \in Creators \ {i} :
                        conn.creator[j].pc # "idle" =>
                            conn.creator[j].new_key_id # conn.creator[i].new_key_id

(* Over a store loaded with a key, one thread is creating a key under the  *)
(* highest allowed id while another has fetched an id above it, after a    *)
(* key was destroyed                                                        *)
C23_Witness ==
    /\ conn.pc = "running"
    /\ conn.loaded # {}
    /\ Len(conn.handed) >= 2
    /\ \E i, j \in Creators :
          /\ conn.creator[i].pc = "generate"
          /\ conn.creator[i].new_key_id = PSA_KEY_ID_USER_MAX
          /\ conn.creator[j].pc = "fetched"
          /\ conn.creator[j].new_key_id > PSA_KEY_ID_USER_MAX

(* C24: startup garbage collection of the Trusted Service provider.  When  *)
(* Provider::new succeeds, every triple of this provider whose key is no   *)
(* longer present in the Trusted Service has been removed from the key     *)
(* store, and every triple whose key is still present has been kept.       *)
C24_StartupGarbageCollection ==
    [][(conn.pc = "down" /\ conn'.pc = "running") =>
          \A t \in get_all(key_store, TrustedService) :
              (t \in DOMAIN key_store') <=>
                  (/\ get_key_id(key_store, t).some
                   /\ get_key_id(key_store, t).v \in conn.backend)]_vars

(* C25: key ids are unique within a provider.  In every state of the key   *)
(* store no two different triples with the same provider id are mapped to  *)
(* the same key id, after any calls of the provider and after a reload     *)
(* from disk.                                                               *)
C25_KeyIdsUniqueWithinProvider ==
    \A t, u \in DOMAIN key_store :
        (t # u /\ t.provider_id = u.provider_id) => key_store[t] # key_store[u]

(* C26: log confidentiality.  With log_error_details unset every error     *)
(* line of the log holds only the kind of the error, no triple,            *)
(* application name, key name or error detail, so that runs differing only *)
(* in these write the same log; details are logged only with the flag set. *)
C26_LogConfidentiality ==
    ~conn.log_error_details => \A line \in conn.log : line.details = <<>>

(* C27: no panic on input.  Whatever bytes a stream holds, decoding the    *)
(* frame and reading the status and the opcode of its header never panic:  *)
(* an opcode or status outside the enumerated range gives an error, not a  *)
(* panic.                                                                   *)
C27_NoPanicOnInput ==
    ~conn.status.panic /\ ~conn.opcode.panic

C30_ListAuthenticatorsInOrder ==
    (conn.pc = "done" /\ conn.operation = "ListAuthenticators" /\ conn.capable = "Ok") =>
        /\ Len(conn.result.authenticators) = Len(conn.authenticators)
        /\ \A k \in 1..Len(conn.authenticators) :
              conn.result.authenticators[k] = AuthenticatorInfo(conn.authenticators[k])
        /\ conn.front_end = {conn.authenticators[k] : k \in 1..Len(conn.authenticators)}

(* UnixPeerCredentials was registered before Direct and is listed first *)
C30_Witness ==
    /\ conn.pc = "done"
    /\ conn.operation = "ListAuthenticators"
    /\ conn.capable = "Ok"
    /\ conn.authenticators = <<"UnixPeerCredentials", "Direct">>
    /\ conn.result.authenticators[1].id = "UnixPeerCredentials"


----------------------------------------------------------------------------
(* Further properties of the key store *)

(* C31: remove of a triple the store does not hold returns Ok(None), is    *)
(* not an error even when no file or directory of the triple exists, and   *)
(* leaves the map and the directory unchanged.                             *)
C31_RemoveOfAbsentTriple ==
    [][(call.op = "none" /\ call'.op = "remove" /\ ~exists(key_store, call'.t)) =>
          /\ call'.status = "Ok"
          /\ call'.ret = None
          /\ key_store' = key_store
          /\ disk' = disk]_vars


(* C32: exists(t) is true exactly when get(t) returns Some: false for a    *)
(* triple no insert stored, true after a successful insert, false after a  *)
(* successful remove.                                                      *)
C32_ExistsIffGetSome ==
    Up =>
        /\ obs.op = "get" =>
              /\ obs.exists = obs.get.some
              /\ obs.exists = HistGet(expected.map, obs.t).some
        /\ (call.op = "insert" /\ call.status = "Ok") =>
              /\ exists(key_store, call.t)
              /\ get(key_store, call.t).some
        /\ (call.op = "remove" /\ call.status = "Ok") =>
              /\ ~exists(key_store, call.t)
              /\ ~get(key_store, call.t).some

(* A thread reads a triple that was inserted and then removed while the    *)
(* store holds another one: exists is false and get is None                *)
C32_Witness ==
    /\ Up
    /\ obs.op = "get"
    /\ obs.t \in expected.removed
    /\ ~obs.exists
    /\ ~obs.get.some
    /\ key_store # EmptyMap


(* C33: the path of a triple is a round trip and injective.  The mapping   *)
(* of a triple is stored at <base64url(app)>/<provider id>/<base64url(key)>:*)
(* decoding the three components gives back the triple, two different     *)
(* triples never share a path, and no encoded component contains a path    *)
(* separator.                                                              *)
C33_PathRoundTrip ==
    (call.op = "insert" /\ call.status = "Ok") =>
        LET path == KeyNameFilePath(call.t)
            names == key_triple_to_base64_filenames(call.t)
        IN  /\ Len(path) = 3
            /\ path = names
            /\ ~PathConversionFails(path)
            /\ DecodeMappingPath(path) = Some(call.t)
            /\ \A u \in InputTriples : KeyNameFilePath(u) = path => u = call.t
            /\ \A i \in 1..3 : \A j \in 1..Len(names[i]) : names[i][j] # 47


(* C40: after every completed insert or remove, successful or failed, the  *)
(* map and the directory agree: every mapping of the map has its file      *)
(* holding its key id and no other triple has a file.  A failed insert     *)
(* over a stored triple leaves the previous mapping in the map and on      *)
(* disk.                                                                    *)
C40_MapAndDirectoryAgree ==
    (Up /\ call.op \in {"insert", "remove"}) =>
        /\ \A t \in DOMAIN key_store :
              FileAt(disk, KeyNameFilePath(t)) = Some(key_store[t])
        /\ \A t \in InputTriples \ DOMAIN key_store :
              ~PathExists(disk, KeyNameFilePath(t))
        /\ (call.op = "insert" /\ call.status = "Err" /\ exists(call.before, call.t)) =>
              /\ get(key_store, call.t) = get(call.before, call.t)
              /\ FileAt(disk, KeyNameFilePath(call.t)) = get(call.before, call.t)


----------------------------------------------------------------------------
(* Further properties of the Trusted Service provider *)

(* C36: after Provider::new succeeds, id_counter is the maximum of         *)
(* PSA_KEY_ID_USER_MIN and every key id stored for this provider, so       *)
(* id_counter + 1 is the key id of no stored key.                          *)
C36_IdCounterIsHighestStored ==
    (Up /\ conn.pc = "running") =>
        LET stored == get_all(key_store, TrustedService)
            ids == {get_key_id(key_store, t).v : t \in stored} \cup {PSA_KEY_ID_USER_MIN}
        IN  /\ \A t \in stored : get_key_id(key_store, t).some
            /\ conn.id_counter \in ids
            /\ \A k \in ids : k <= conn.id_counter
            /\ \A t \in stored : get_key_id(key_store, t).v # (conn.id_counter + 1) % U32

(* Provider::new succeeded over a store with two keys of this provider and *)
(* set id_counter to the higher of their key ids                           *)
C36_Witness ==
    /\ Up
    /\ conn.pc = "running"
    /\ Cardinality(get_all(key_store, TrustedService)) = 2
    /\ conn.id_counter = 3
    /\ conn.id_counter > PSA_KEY_ID_USER_MIN


(* C37: during Provider::new exactly the triples whose key id cannot be    *)
(* obtained are removed from the key store, and every other triple is left *)
(* unchanged in the map and on disk.  If listing the triples fails or      *)
(* removing one of them fails, construction returns an error and no        *)
(* provider is created.                                                    *)
C37_NewRemovesUnreadableTriples ==
    [][(Up /\ conn.pc = "down" /\ conn'.pc \in {"running", "failed"}) =>
          /\ DOMAIN key_store' \subseteq DOMAIN key_store
          /\ (DOMAIN key_store \ DOMAIN key_store') \subseteq ToRemove(key_store)
          /\ \A t \in DOMAIN key_store' :
                /\ key_store'[t] = key_store[t]
                /\ FileAt(disk', KeyNameFilePath(t)) = FileAt(disk, KeyNameFilePath(t))
          /\ \A t \in DOMAIN key_store \ DOMAIN key_store' :
                ~PathExists(disk', KeyNameFilePath(t))
          /\ conn'.pc = "running" =>
                DOMAIN key_store' = DOMAIN key_store \ ToRemove(key_store)
          /\ GetAllErrorLine \in conn'.log =>
                (conn'.pc = "failed" /\ key_store' = key_store /\ disk' = disk)
          /\ ToRemove(key_store') # {} => conn'.pc = "failed"
          /\ conn'.pc = "failed" =>
                /\ GetAllErrorLine \in conn'.log \/ ToRemove(key_store') # {}
                /\ conn'.id_counter = PSA_KEY_ID_USER_MIN
                /\ conn'.loaded = {}]_vars

(* Provider::new succeeded over a store that held a triple with an         *)
(* unreadable key id beside a readable one: the first is gone from the map *)
(* and from disk, the second is kept                                       *)
C37_Witness ==
    /\ Up
    /\ conn.pc = "running"
    /\ KeyTriple(<<97>>, TrustedService, <<107>>) \in DOMAIN key_store
    /\ KeyTriple(<<98>>, TrustedService, <<107>>) \notin DOMAIN key_store
    /\ ~PathExists(disk, KeyNameFilePath(KeyTriple(<<98>>, TrustedService, <<107>>)))
    /\ \E line \in conn.log : line.message = "Error getting the Key ID for triple"


----------------------------------------------------------------------------
(* Properties of the service builder *)

(* C38: build_providers returns at most one provider per provider id.  An  *)
(* entry whose id already has a built provider is ignored (the first one   *)
(* built wins), entries that name an unknown key info manager or fail to   *)
(* build are skipped; the map of the dispatcher holds exactly the built    *)
(* providers and Core, and build_service returns an error when no provider *)
(* could be built.                                                         *)
C38_OneProviderPerId ==
    LET configs == conn.configs
        providers == conn.providers
        Built(i) == configs[i].key_info_manager /\ configs[i].created
        wins == {i \in 1..Len(configs) :
                    /\ Built(i)
                    /\ \A j \in 1..(i - 1) :
                          ~(Built(j) /\ configs[j].provider_id = configs[i].provider_id)}
    IN  /\ conn.pc \in {"serve", "done"} =>
              /\ providers # <<>>
              /\ \A j, k \in 1..Len(providers) : j # k => providers[j] # providers[k]
              /\ Len(providers) = Cardinality(wins)
              /\ \A k \in 1..Len(providers) :
                    \E i \in wins :
                       /\ configs[i].provider_id = providers[k]
                       /\ Cardinality({j \in wins : j < i}) = k - 1
              /\ DOMAIN conn.backends = {providers[k] : k \in 1..Len(providers)} \cup {0}
        /\ conn.pc = "failed" => wins = {}
        /\ (conn.pc # "build" /\ wins = {}) => conn.pc = "failed"

(* The service was built from two entries of one provider id that could    *)
(* both be built: the list holds one provider of that id, and the          *)
(* dispatcher holds it and Core                                            *)
C38_Witness ==
    /\ conn.pc = "serve"
    /\ Len(conn.configs) = 2
    /\ conn.configs[1].provider_id = conn.configs[2].provider_id
    /\ \A i \in 1..2 : conn.configs[i].key_info_manager /\ conn.configs[i].created
    /\ conn.providers = <<conn.configs[1].provider_id>>
    /\ DOMAIN conn.backends = {0, conn.configs[1].provider_id}

(* C39: every entry of the dispatcher's map from provider id to handler is *)
(* keyed by the provider id its handler is configured with, so that after  *)
(* a successful lookup is_capable never returns WrongProviderID.           *)
C39_HandlerKeyedByItsProviderId ==
    conn.pc \in {"serve", "done"} =>
        /\ \A id \in DOMAIN conn.backends :
              /\ conn.backends[id].provider_id = id
              /\ \A header \in RequestHeaders :
                    header.provider = id =>
                        is_capable(conn.backends[id], header) # "WrongProviderID"
        /\ conn.pc = "done" =>
              /\ conn.request.provider \in DOMAIN conn.backends
              /\ conn.capable # "WrongProviderID"

(* A request was looked up in a dispatcher that holds two providers and    *)
(* Core, and the handler found was asked whether it is capable             *)
C39_Witness ==
    /\ conn.pc = "done"
    /\ DOMAIN conn.backends = {0, 1, 2}
    /\ conn.request.provider = 0
    /\ conn.capable \in {"Ok", "VersionTooBig"}
    /\ conn.capable = is_capable(conn.backends[0], conn.request)


----------------------------------------------------------------------------
(* Properties of the converter *)

(* C34: the converter is a round trip and selects the variant by the       *)
(* opcode.  For every opcode and every operation (result) of its variant,  *)
(* body_to_operation of body_from_operation (body_to_result of             *)
(* body_from_result) gives the value back; decoding with an opcode gives   *)
(* the variant of that opcode and no other; a body that does not decode    *)
(* gives DeserializingBodyFailed.                                          *)
C34_ConverterRoundTrip ==
    conn.pc = "converted" =>
        /\ conn.native # NoNative =>
              /\ conn.converted.ok
              /\ conn.converted.v.variant = conn.native.variant
              /\ conn.converted.v.value = conn.native.value
        /\ conn.converted.ok => conn.converted.v.variant = OperationOf(conn.opcode)
        /\ ~conn.converted.ok => conn.converted.status = "DeserializingBodyFailed"
        /\ ~ProtoMerge(conn.body).ok =>
              (~conn.converted.ok /\ conn.converted.status = "DeserializingBodyFailed")

(* A CreateKey operation with a key name and a lifetime went to a body and *)
(* back                                                                     *)
C34_Witness ==
    /\ conn.pc = "converted"
    /\ conn.side = "operation"
    /\ conn.native # NoNative
    /\ conn.native.variant = "CreateKey"
    /\ Len(conn.body) >= 4
    /\ conn.converted.ok
    /\ conn.converted.v.variant = "CreateKey"
    /\ conn.converted.v.value.key_name = <<107, 50>>
    /\ conn.converted.v.value.key_lifetime = 1


----------------------------------------------------------------------------
(* Properties of the provider *)

(* C35: import and export are a round trip.  After an application has      *)
(* imported a public key under a name with some key data, an export of the *)
(* key of that name by the same application at the same provider, with no  *)
(* destroy or import of that name in between, succeeds and returns exactly *)
(* that key data.                                                          *)
C35_ImportExportRoundTrip ==
    (conn.result.operation = "ExportPublicKey" /\ conn.result.t \in DOMAIN conn.imported) =>
        /\ conn.result.status = "Success"
        /\ conn.result.key_data = conn.imported[conn.result.t]

(* Two applications imported different key data under the same key name,   *)
(* and the export of one of them returned its own                          *)
C35_Witness ==
    /\ conn.result.operation = "ExportPublicKey"
    /\ DOMAIN conn.imported = SharedTriples
    /\ \E t, u \in SharedTriples : conn.imported[t] # conn.imported[u]
    /\ conn.result.status = "Success"
    /\ conn.result.key_data = conn.imported[conn.result.t]

====
